---------------------------- MODULE Spec2Model ----------------------------
(***************************************************************************)
(* Component Inspector: the value normalizer, the Tailwind class generator, *)
(* the multi-breakpoint aggregator, the inline style generator and the      *)
(* breakpoint-aware state store of PropertyInspector/hooks.ts, with the     *)
(* Tailwind utilities and the preview styles of PreviewBox.tsx.             *)
(*                                                                         *)
(* A JavaScript string is a sequence of one-character strings, so that      *)
(* template literals, trim(), match() and join() are computed and not      *)
(* assumed.  A JavaScript object is a function from its keys, so that a     *)
(* partial override is a function with a smaller domain.                    *)
(***************************************************************************)
EXTENDS Integers, Sequences, FiniteSets, TLC

VARIABLES
    state,              \* useInspectorState: the base state
    breakpointStates,   \* the override of each breakpoint
    currentBreakpoint,  \* the breakpoint edits without a breakpoint argument go to
    allClasses,         \* the string useAllBreakpointClasses returned at the last render
    callbackBreakpoint, \* currentBreakpoint as the callbacks of the last render captured it
    lastOp,             \* the callback last called, the breakpoint it addressed and
                        \* whether that breakpoint had overrides before the call
    nOps,               \* the number of callbacks called
    pc,                 \* "init" before the first render, "render" while a state
                        \* update awaits its render pass, else "idle"
    genState,           \* the state handed to the generators
    genBp,              \* the breakpoint handed to useGeneratedClasses
    genClasses,         \* the string useGeneratedClasses returned
    genStyles,          \* the style object useGeneratedStyles returned
    genFocused,         \* isFocused of PreviewBox
    genPreview,         \* the previewStyles of PreviewBox
    genHtml,            \* the HTML useGeneratedCode returned
    genCss,             \* the CSS text useExportCSS returned
    genPc,              \* "start", "classes", "styles", then "preview" or "code", "css"
    normIn,             \* the argument of the normalizeNumericValue call
    normOut,            \* its result
    normOut2,           \* the result of normalizing that result again
    normPc,             \* "start", "once", "twice"
    memoState,          \* the state the component last passed to the memoized hook
    memoBp,             \* the breakpoint it passed
    memoHas,            \* whether useMemo has stored a value yet
    memoDeps,           \* the dependency list useMemo stored with the value
    memoValue,          \* the class string useMemo stored
    memoHit,            \* whether the last render reused the stored value
    nMemo,              \* the number of updates of state or breakpoint
    memoPc,             \* "update" while an update awaits its render, else "rendered"
    autoClear,          \* whether the provider is the one with clearSavedCode and auto-clear
    customHtml,         \* CodePreviewProvider: the custom HTML
    customCss,          \* the custom CSS
    savedHtml,          \* the saved HTML
    savedCss,           \* the saved CSS
    hasSavedCode,       \* whether code is saved
    inspectorState,     \* the inspector state of the context
    renderedCode,       \* customHtml, customCss and hasSavedCode as the callbacks of
                        \* the last render captured them
    codeOp,             \* the callback last called and hasSavedCode before the call
    nCodeOps,           \* the number of callbacks called
    codePc              \* "render" while an update awaits its render, else "idle"

storeVars ==
    <<state, breakpointStates, currentBreakpoint, callbackBreakpoint, allClasses,
      lastOp, nOps, pc>>

genVars ==
    <<genState, genBp, genClasses, genStyles, genFocused, genPreview, genHtml,
      genCss, genPc>>

normVars == <<normIn, normOut, normOut2, normPc>>

memoVars ==
    <<memoState, memoBp, memoHas, memoDeps, memoValue, memoHit, nMemo, memoPc>>

codeVars ==
    <<autoClear, customHtml, customCss, savedHtml, savedCss, hasSavedCode,
      inspectorState, renderedCode, codeOp, nCodeOps, codePc>>

vars == <<storeVars, genVars, normVars, memoVars, codeVars>>

---------------------------------------------------------------------------
(* Bounds of the model *)

\* longest string drawn as an argument of normalizeNumericValue
MaxStrLen == 5

\* numbers drawn as arguments of normalizeNumericValue are -MaxNum..MaxNum
MaxNum == 12

\* callbacks of the store called in one behaviour
MaxOps == 2

\* fields that differ from DEFAULT_INSPECTOR_STATE in a state handed to the generators
MaxGenEdits == 2

MaxMemoUpdates == 2

MaxCodeOps == 3

---------------------------------------------------------------------------
(* JavaScript strings *)

Digits == {"0", "1", "2", "3", "4", "5", "6", "7", "8", "9"}

Letters == {"a", "b", "c", "d", "e", "f", "g", "h", "i", "j", "k", "l", "m",
            "n", "o", "p", "q", "r", "s", "t", "u", "v", "w", "x", "y", "z"}

Whitespace == {" "}

\* the character class [\d.-] of the regular expression of normalizeNumericValue
NumericClass == Digits \cup {".", "-"}

EmptyStr == << >>

DigitChar(d) ==
    CASE d = 0 -> "0" [] d = 1 -> "1" [] d = 2 -> "2" [] d = 3 -> "3"
      [] d = 4 -> "4" [] d = 5 -> "5" [] d = 6 -> "6" [] d = 7 -> "7"
      [] d = 8 -> "8" [] d = 9 -> "9"

RECURSIVE NatToStr(_)
NatToStr(n) ==
    IF n < 10 THEN <<DigitChar(n)>>
    ELSE NatToStr(n \div 10) \o <<DigitChar(n % 10)>>

\* String(n) for an integer n
NumToStr(n) == IF n < 0 THEN <<"-">> \o NatToStr(-n) ELSE NatToStr(n)

RECURSIVE TrimStart(_)
TrimStart(s) ==
    IF s # EmptyStr /\ Head(s) \in Whitespace THEN TrimStart(Tail(s)) ELSE s

RECURSIVE TrimEnd(_)
TrimEnd(s) ==
    IF s # EmptyStr /\ s[Len(s)] \in Whitespace
    THEN TrimEnd(SubSeq(s, 1, Len(s) - 1))
    ELSE s

\* String.prototype.trim
Trim(s) == TrimEnd(TrimStart(s))

\* the longest prefix of s whose characters all belong to class
RECURSIVE PrefixIn(_, _)
PrefixIn(s, class) ==
    IF s # EmptyStr /\ Head(s) \in class
    THEN <<Head(s)>> \o PrefixIn(Tail(s), class)
    ELSE EmptyStr

\* s.startsWith(p)
StartsWith(s, p) == Len(s) >= Len(p) /\ SubSeq(s, 1, Len(p)) = p

\* s.endsWith(p)
EndsWith(s, p) == Len(s) >= Len(p) /\ SubSeq(s, Len(s) - Len(p) + 1, Len(s)) = p

\* s.includes(sub)
Contains(s, sub) ==
    \E i \in 1..(Len(s) - Len(sub) + 1) : SubSeq(s, i, i + Len(sub) - 1) = sub

\* the longest prefix of s with no character of class
RECURSIVE PrefixNotIn(_, _)
PrefixNotIn(s, class) ==
    IF s # EmptyStr /\ Head(s) \notin class
    THEN <<Head(s)>> \o PrefixNotIn(Tail(s), class)
    ELSE EmptyStr

---------------------------------------------------------------------------
(* JavaScript values handed to normalizeNumericValue:                      *)
(* string | number | null | undefined                                      *)

JsStr(s) == [kind |-> "string", val |-> s]
JsNum(n) == [kind |-> "number", val |-> n]
JsNull == [kind |-> "null", val |-> 0]
JsUndefined == [kind |-> "undefined", val |-> 0]

\* !value
Falsy(value) ==
    CASE value.kind = "string" -> value.val = EmptyStr
      [] value.kind = "number" -> value.val = 0
      [] OTHER -> TRUE

\* String(value), for a value that is not null or undefined
JsString(value) ==
    IF value.kind = "number" THEN NumToStr(value.val) ELSE value.val

\* str.match(/^([\d.-]+)/): the captured group, or the empty string for null
NumMatch(str) == PrefixIn(str, NumericClass)

\* variant: a normalizer that only strips one trailing px: not idempotent
NormalizeStripPx(value) ==
    IF Falsy(value) THEN EmptyStr
    ELSE LET str == Trim(JsString(value))
             n == Len(str)
         IN  IF n >= 2 /\ str[n - 1] = "p" /\ str[n] = "x"
             THEN SubSeq(str, 1, n - 2)
             ELSE str

\* variant: a normalizer that returns '' when the text has no leading number
NormalizeNumberOnly(value) ==
    IF Falsy(value) THEN EmptyStr ELSE NumMatch(Trim(JsString(value)))

normalizeNumericValue(value) ==
    IF Falsy(value) THEN EmptyStr
    ELSE LET str == Trim(JsString(value))
             numMatch == NumMatch(str)
         IN  IF numMatch # EmptyStr THEN numMatch ELSE str

---------------------------------------------------------------------------
(* InspectorState: the style state of the inspected element.  String fields *)
(* are JavaScript strings, numeric fields are integers, tailwindClasses is  *)
(* a sequence of strings.                                                  *)

\* the keys whose value is a nested object
GroupKeys ==
    {"padding", "margin", "position", "size", "typography", "transforms",
     "transforms3D", "border", "effects", "appearance"}

ScalarKeys == {"tag", "elementId", "textContent", "link", "inlineCSS"}

StateKeys == GroupKeys \cup ScalarKeys \cup {"tailwindClasses"}

DEFAULT_INSPECTOR_STATE ==
    [ tag |-> <<"d", "i", "v">>,
      elementId |-> << >>,
      textContent |-> << >>,
      link |-> << >>,
      inlineCSS |-> << >>,
      tailwindClasses |-> << >>,
      padding |-> [l |-> <<"0">>, t |-> <<"0">>, r |-> <<"0">>, b |-> <<"0">>],
      margin |-> [x |-> <<"0">>, y |-> <<"0">>],
      position |-> [type |-> <<"s", "t", "a", "t", "i", "c">>, zIndex |-> << >>,
                    l |-> << >>, t |-> << >>, r |-> << >>, b |-> << >>],
      size |-> [width |-> << >>, height |-> << >>, maxWidth |-> << >>,
                maxHeight |-> << >>, minWidth |-> << >>, minHeight |-> << >>],
      typography |-> [fontFamily |-> <<"i", "n", "t", "e", "r">>, fontWeight |-> <<"n", "o", "r", "m", "a", "l">>,
                      fontSize |-> << >>, letterSpacing |-> <<"n", "o", "r", "m", "a", "l">>,
                      lineHeight |-> << >>, textAlign |-> <<"l", "e", "f", "t">>,
                      textColor |-> << >>],
      transforms |-> [rotate |-> 0, scale |-> 100, translateX |-> 0,
                      translateY |-> 0, skewX |-> 0, skewY |-> 0],
      transforms3D |-> [rotateX |-> 0, rotateY |-> 0, rotateZ |-> 0,
                        perspective |-> 0],
      effects |-> [opacity |-> 100, blur |-> 0, backdropBlur |-> 0,
                   hueRotate |-> 0, saturation |-> 100, brightness |-> 100,
                   contrast |-> 100, grayscale |-> 0, invert |-> 0,
                   sepia |-> 0, shadow |-> <<"n", "o", "n", "e">>],
      border |-> [width |-> <<"0">>, style |-> <<"s", "o", "l", "i", "d">>, color |-> << >>,
                  radius |-> [all |-> 0, tl |-> 0, tr |-> 0, br |-> 0, bl |-> 0]],
      appearance |-> [backgroundColor |-> << >>, backgroundImage |-> << >>,
                      blendMode |-> <<"n", "o", "r", "m", "a", "l">>] ]

\* const BREAKPOINT_KEYS
BREAKPOINT_KEYS == <<"base", "sm", "md", "lg", "xl", "2xl">>

Breakpoints == {BREAKPOINT_KEYS[i] : i \in DOMAIN BREAKPOINT_KEYS}

\* the object literal {}
EmptyObj == << >>

\* { ...a, ...b }
Spread(a, b) ==
    [k \in DOMAIN a \cup DOMAIN b |-> IF k \in DOMAIN b THEN b[k] ELSE a[k]]

\* { ...a, [key]: value }
With(a, key, value) ==
    [k \in DOMAIN a \cup {key} |-> IF k = key THEN value ELSE a[k]]

\* bpState[key] || {} for a group key: the override of the group, or {}
GroupOr(bpState, key) ==
    IF key \in DOMAIN bpState THEN bpState[key] ELSE EmptyObj

\* bpState.border?.radius || {}
RadiusOr(bpState) ==
    IF "border" \in DOMAIN bpState /\ "radius" \in DOMAIN bpState["border"]
    THEN bpState["border"]["radius"]
    ELSE EmptyObj

\* variant: an effective state that spreads the override without merging the groups
GetEffectiveStateNoMerge(st, bpStates, bp) == Spread(st, bpStates[bp])

\* getEffectiveState(bp) of a store whose base state is st and whose
\* override map is bpStates
GetEffectiveState(st, bpStates, bp) ==
    LET bpState == bpStates[bp]
        top == Spread(st, bpState)
    IN  [k \in DOMAIN top |->
            IF k = "border"
            THEN With(Spread(st["border"], GroupOr(bpState, "border")),
                      "radius",
                      Spread(st["border"]["radius"], RadiusOr(bpState)))
            ELSE IF k \in GroupKeys
            THEN Spread(st[k], GroupOr(bpState, k))
            ELSE top[k]]

---------------------------------------------------------------------------
(* useInspectorState: the reducers of the store.  Each takes the previous   *)
(* value of what it writes and returns the next one.                        *)

\* the breakpoint argument left out by the caller
NoBp == "undefined"

\* const bp = breakpoint || currentBreakpoint
TargetBp(breakpoint, current) == IF breakpoint = NoBp THEN current ELSE breakpoint

\* typeof prev[key] === 'object' && prev[key] !== null && !Array.isArray(prev[key])
IsObjectKey(key) == key \in GroupKeys

\* typeof nestedObj[nestedKey] === 'object' && nestedObj[nestedKey] !== null
IsObjectField(key, nestedKey) == key = "border" /\ nestedKey = "radius"

\* the setState updater of updateState
updateStateBase(prev, key, value) == With(prev, key, value)

\* the setBreakpointStates updater of updateState
updateStateBp(prev, bp, key, value) == With(prev, bp, With(prev[bp], key, value))

\* the setState updater of updateNestedState
updateNestedStateBase(prev, key, nestedKey, value) ==
    IF IsObjectKey(key)
    THEN With(prev, key, With(prev[key], nestedKey, value))
    ELSE prev

\* variant: an updateNestedState that writes a group holding only nestedKey
updateNestedStateBpReplace(prev, bp, key, nestedKey, value) ==
    With(prev, bp, With(prev[bp], key, With(EmptyObj, nestedKey, value)))

\* the setBreakpointStates updater of updateNestedState
updateNestedStateBp(prev, bp, key, nestedKey, value) ==
    LET currentBpState == prev[bp]
        currentValue == IF key \in DOMAIN currentBpState /\ IsObjectKey(key)
                        THEN currentBpState[key]
                        ELSE EmptyObj
    IN  With(prev, bp, With(currentBpState, key, With(currentValue, nestedKey, value)))

\* the setState updater of updateDeepNestedState
updateDeepNestedStateBase(prev, key, nestedKey, deepKey, value) ==
    IF IsObjectKey(key) /\ nestedKey \in DOMAIN prev[key] /\ IsObjectField(key, nestedKey)
    THEN With(prev, key,
              With(prev[key], nestedKey, With(prev[key][nestedKey], deepKey, value)))
    ELSE prev

\* the setBreakpointStates updater of updateDeepNestedState
updateDeepNestedStateBp(prev, bp, key, nestedKey, deepKey, value) ==
    LET currentBpState == prev[bp]
        currentValue == IF key \in DOMAIN currentBpState /\ IsObjectKey(key)
                        THEN currentBpState[key]
                        ELSE EmptyObj
        nestedValue == IF nestedKey \in DOMAIN currentValue /\ IsObjectField(key, nestedKey)
                       THEN currentValue[nestedKey]
                       ELSE EmptyObj
    IN  With(prev, bp,
             With(currentBpState, key,
                  With(currentValue, nestedKey, With(nestedValue, deepKey, value))))

\* deepMerge(target, source) for a group: recursion into the fields that
\* are objects on both sides, assignment of the others
deepMerge(key, target, source) ==
    [k \in DOMAIN target \cup DOMAIN source |->
        IF k \notin DOMAIN source THEN target[k]
        ELSE IF k \in DOMAIN target /\ IsObjectField(key, k)
        THEN Spread(target[k], source[k])
        ELSE source[k]]

\* the setState updater of applyStateChanges
applyStateChanges(prev, changes) ==
    [k \in DOMAIN prev \cup DOMAIN changes |->
        IF k \notin DOMAIN changes THEN prev[k]
        ELSE IF IsObjectKey(k) /\ k \in DOMAIN prev
        THEN deepMerge(k, prev[k], changes[k])
        ELSE changes[k]]

\* the override map written by useState and by resetState
EmptyBreakpointStates == [bp \in Breakpoints |-> EmptyObj]

\* the setState updater of resetTransforms
resetTransforms(prev) ==
    With(With(prev, "transforms", DEFAULT_INSPECTOR_STATE["transforms"]),
         "transforms3D", DEFAULT_INSPECTOR_STATE["transforms3D"])

\* the setState updater of resetEffects
resetEffects(prev) == With(prev, "effects", DEFAULT_INSPECTOR_STATE["effects"])

\* variant: a clearBreakpointOverrides that removes the key of the breakpoint
clearBreakpointOverridesDelete(prev, bp) ==
    IF bp # "base" THEN [b \in DOMAIN prev \ {bp} |-> prev[b]] ELSE prev

\* variant: a clearBreakpointOverrides that leaves the overrides in place
clearBreakpointOverridesKeep(prev, bp) == prev

\* clearBreakpointOverrides(bp): the next override map
clearBreakpointOverrides(prev, bp) ==
    IF bp # "base" THEN With(prev, bp, EmptyObj) ELSE prev

\* hasBreakpointOverrides(bp)
hasBreakpointOverrides(bpStates, bp) == DOMAIN bpStates[bp] # {}

---------------------------------------------------------------------------
(* Arrays of strings *)

\* classes.filter(Boolean)
RECURSIVE FilterBoolean(_)
FilterBoolean(classes) ==
    IF classes = << >> THEN << >>
    ELSE IF Head(classes) = EmptyStr THEN FilterBoolean(Tail(classes))
    ELSE <<Head(classes)>> \o FilterBoolean(Tail(classes))

\* classes.join(' ')
RECURSIVE Join(_)
Join(classes) ==
    IF classes = << >> THEN EmptyStr
    ELSE IF Len(classes) = 1 THEN classes[1]
    ELSE classes[1] \o <<" ">> \o Join(Tail(classes))

\* the elements of an array in reverse order
RECURSIVE Reverse(_)
Reverse(classes) ==
    IF classes = << >> THEN << >>
    ELSE Append(Reverse(Tail(classes)), Head(classes))

\* variant: a Set that keeps the last pushes first
SetOfReversed(classes) == Reverse(classes)

\* [...new Set(classes)]: the first occurrence of each element, in order
RECURSIVE SetOf(_)
SetOf(classes) ==
    IF classes = << >> THEN << >>
    ELSE LET front == SetOf(SubSeq(classes, 1, Len(classes) - 1))
             last == classes[Len(classes)]
         IN  IF \E i \in DOMAIN front : front[i] = last
             THEN front
             ELSE Append(front, last)

\* the whitespace-separated tokens of a class string, as a browser reads
\* the class attribute
RECURSIVE Tokens(_)
Tokens(str) ==
    LET s == TrimStart(str)
        tok == PrefixNotIn(s, Whitespace)
    IN  IF s = EmptyStr THEN << >>
        ELSE <<tok>> \o Tokens(SubSeq(s, Len(tok) + 1, Len(s)))

\* variant: no prefix for any breakpoint
PrefixNone(breakpoint) == EmptyStr

\* const prefix = breakpoint === 'base' ? '' : `${breakpoint}:`
BreakpointName(bp) ==
    CASE bp = "base" -> <<"b", "a", "s", "e">> [] bp = "sm" -> <<"s", "m">> [] bp = "md" -> <<"m", "d">>
      [] bp = "lg" -> <<"l", "g">> [] bp = "xl" -> <<"x", "l">> [] bp = "2xl" -> <<"2", "x", "l">>

Prefix(bp) == IF bp = "base" THEN EmptyStr ELSE BreakpointName(bp) \o <<":">>

\* a string in a boolean context
Truthy(str) == str # EmptyStr

\* what one pass of the forEach of useAllBreakpointClasses pushes
AllBreakpointPass(st, bpStates, bp) ==
    IF bp = "base" \/ DOMAIN bpStates[bp] # {}
    THEN LET effectiveState == GetEffectiveState(st, bpStates, bp)
             prefix == Prefix(bp)
             l == effectiveState["padding"]["l"]
         IN  IF Truthy(l) /\ l # <<"0">>
             THEN <<prefix \o <<"p", "l", "-">> \o l>>
             ELSE << >>
    ELSE << >>

\* variant: a forEach that visits the last breakpoint first
RECURSIVE AllBreakpointPushesLastFirst(_, _, _)
AllBreakpointPushesLastFirst(st, bpStates, bps) ==
    IF bps = << >> THEN << >>
    ELSE AllBreakpointPushesLastFirst(st, bpStates, Tail(bps))
            \o AllBreakpointPass(st, bpStates, Head(bps))

RECURSIVE AllBreakpointPushes(_, _, _)
AllBreakpointPushes(st, bpStates, bps) ==
    IF bps = << >> THEN << >>
    ELSE AllBreakpointPass(st, bpStates, Head(bps))
            \o AllBreakpointPushes(st, bpStates, Tail(bps))

\* useAllBreakpointClasses(baseState, breakpointStates, getEffectiveState)
useAllBreakpointClasses(st, bpStates) ==
    Join(SetOf(AllBreakpointPushes(st, bpStates, BREAKPOINT_KEYS)))

---------------------------------------------------------------------------
(* useGeneratedClasses: the Tailwind class generator for one breakpoint     *)

\* `${n / 100}` for an integer n: the shortest decimal of n / 100
Div100Str(n) ==
    LET a == IF n < 0 THEN -n ELSE n
        q == a \div 100
        r == a % 100
        frac == IF r = 0 THEN EmptyStr
                ELSE IF r % 10 = 0 THEN <<".">> \o <<DigitChar(r \div 10)>>
                ELSE <<".">> \o <<DigitChar(r \div 10), DigitChar(r % 10)>>
    IN  (IF n < 0 THEN <<"-">> ELSE EmptyStr) \o NatToStr(q) \o frac

\* const spacingTokens of isTailwindToken
spacingTokens ==
    { <<"0">>, <<"1">>, <<"2">>, <<"3">>, <<"4">>, <<"6">>, <<"8">>, <<"1", "0">>, <<"1", "2">>, <<"1", "4">>, <<"1", "6">>, <<"2", "0">>,
      <<"2", "4">>, <<"2", "8">>, <<"3", "2">>, <<"3", "6">>, <<"4", "0">>, <<"4", "4">>, <<"4", "8">>, <<"5", "2">>, <<"5", "6">>, <<"6", "0">>, <<"6", "4">>,
      <<"7", "2">>, <<"8", "0">>, <<"9", "6">> }

\* const opacityTokens of isTailwindToken
opacityTokens ==
    { <<"0">>, <<"5">>, <<"1", "0">>, <<"2", "0">>, <<"2", "5">>, <<"3", "0">>, <<"4", "0">>, <<"5", "0">>, <<"6", "0">>, <<"7", "0">>, <<"7", "5">>,
      <<"8", "0">>, <<"9", "0">>, <<"9", "5">>, <<"1", "0", "0">> }

\* isTailwindToken(property, value)
isTailwindToken(property, value) ==
    LET numValue == normalizeNumericValue(JsStr(value))
    IN  IF StartsWith(property, <<"o", "p", "a", "c", "i", "t", "y", "-">>) THEN numValue \in opacityTokens
        ELSE IF \/ StartsWith(property, <<"p", "-">>)
                \/ StartsWith(property, <<"m", "-">>)
                \/ StartsWith(property, <<"g", "a", "p", "-">>)
        THEN numValue \in spacingTokens
        ELSE FALSE

\* if (cond) classes.push(token)
PushIf(cond, token) == IF cond THEN <<token>> ELSE << >>

\* `${prefix}${name}-[${value}${unit}]`
Bracket(prefix, name, value, unit) ==
    prefix \o name \o <<"-", "[">> \o value \o unit \o <<"]">>

\* variant: a spacing class made from the raw value, without normalizeNumericValue
SpacingClassNoNormalize(prefix, name, raw) ==
    LET v == raw
    IN  PushIf(Truthy(v) /\ v # <<"0">>, Bracket(prefix, name, v, <<"p", "x">>))

\* variant: a spacing class in the short token form when isTailwindToken accepts the value
SpacingClassToken(prefix, name, raw) ==
    LET v == normalizeNumericValue(JsStr(raw))
    IN  PushIf(Truthy(v) /\ v # <<"0">>,
               IF isTailwindToken(<<"p", "-">>, v)
               THEN prefix \o name \o <<"-">> \o v
               ELSE Bracket(prefix, name, v, <<"p", "x">>))

\* const paddingL = normalizeNumericValue(state.padding.l);
\* if (paddingL && paddingL !== '0') classes.push(`${prefix}pl-[${paddingL}px]`)
SpacingClass(prefix, name, raw) ==
    LET v == normalizeNumericValue(JsStr(raw))
    IN  PushIf(Truthy(v) /\ v # <<"0">>, Bracket(prefix, name, v, <<"p", "x">>))

PaddingClasses(st, prefix) ==
    SpacingClass(prefix, <<"p", "l">>, st["padding"]["l"])
        \o SpacingClass(prefix, <<"p", "t">>, st["padding"]["t"])
        \o SpacingClass(prefix, <<"p", "r">>, st["padding"]["r"])
        \o SpacingClass(prefix, <<"p", "b">>, st["padding"]["b"])

MarginClasses(st, prefix) ==
    SpacingClass(prefix, <<"m", "x">>, st["margin"]["x"])
        \o SpacingClass(prefix, <<"m", "y">>, st["margin"]["y"])

\* if (state.position.l) classes.push(`${prefix}left-[${normalizeNumericValue(state.position.l)}px]`)
Offset(prefix, name, raw) ==
    PushIf(Truthy(raw), Bracket(prefix, name, normalizeNumericValue(JsStr(raw)), <<"p", "x">>))

\* variant: a position class pushed for every position type, static included
PositionClassesAlways(st, prefix) ==
    <<prefix \o st["position"]["type"]>>

PositionTypeClass(st, prefix) ==
    PushIf(st["position"]["type"] # <<"s", "t", "a", "t", "i", "c">>, prefix \o st["position"]["type"])

PositionClasses(st, prefix) ==
    PositionTypeClass(st, prefix)
        \o PushIf(Truthy(st["position"]["zIndex"]),
                  Bracket(prefix, <<"z">>,
                          normalizeNumericValue(JsStr(st["position"]["zIndex"])), << >>))
        \o Offset(prefix, <<"l", "e", "f", "t">>, st["position"]["l"])
        \o Offset(prefix, <<"t", "o", "p">>, st["position"]["t"])
        \o Offset(prefix, <<"r", "i", "g", "h", "t">>, st["position"]["r"])
        \o Offset(prefix, <<"b", "o", "t", "t", "o", "m">>, st["position"]["b"])

\* if (state.size.width) classes.push(`${prefix}w-[${state.size.width}]`)
RawBracket(prefix, name, raw) ==
    PushIf(Truthy(raw), Bracket(prefix, name, raw, << >>))

SizeClasses(st, prefix) ==
    RawBracket(prefix, <<"w">>, st["size"]["width"])
        \o RawBracket(prefix, <<"h">>, st["size"]["height"])
        \o RawBracket(prefix, <<"m", "a", "x", "-", "w">>, st["size"]["maxWidth"])
        \o RawBracket(prefix, <<"m", "a", "x", "-", "h">>, st["size"]["maxHeight"])
        \o RawBracket(prefix, <<"m", "i", "n", "-", "w">>, st["size"]["minWidth"])
        \o RawBracket(prefix, <<"m", "i", "n", "-", "h">>, st["size"]["minHeight"])

\* if (value !== neutral) classes.push(`${prefix}${name}-${value}`)
Keyword(prefix, name, value, neutral) ==
    PushIf(value # neutral, prefix \o name \o <<"-">> \o value)

TypographyClasses(st, prefix) ==
    Keyword(prefix, <<"f", "o", "n", "t">>, st["typography"]["fontFamily"], <<"i", "n", "t", "e", "r">>)
        \o Keyword(prefix, <<"f", "o", "n", "t">>, st["typography"]["fontWeight"], <<"n", "o", "r", "m", "a", "l">>)
        \o RawBracket(prefix, <<"t", "e", "x", "t">>, st["typography"]["fontSize"])
        \o Keyword(prefix, <<"t", "r", "a", "c", "k", "i", "n", "g">>, st["typography"]["letterSpacing"], <<"n", "o", "r", "m", "a", "l">>)
        \o RawBracket(prefix, <<"l", "e", "a", "d", "i", "n", "g">>, st["typography"]["lineHeight"])
        \o Keyword(prefix, <<"t", "e", "x", "t">>, st["typography"]["textAlign"], <<"l", "e", "f", "t">>)

TransformClasses(st, prefix) ==
    LET t == st["transforms"]
    IN  PushIf(t["rotate"] # 0, Bracket(prefix, <<"r", "o", "t", "a", "t", "e">>, NumToStr(t["rotate"]), <<"d", "e", "g">>))
        \o PushIf(t["scale"] # 100, Bracket(prefix, <<"s", "c", "a", "l", "e">>, Div100Str(t["scale"]), << >>))
        \o PushIf(t["translateX"] # 0,
                  Bracket(prefix, <<"t", "r", "a", "n", "s", "l", "a", "t", "e", "-", "x">>, NumToStr(t["translateX"]), <<"p", "x">>))
        \o PushIf(t["translateY"] # 0,
                  Bracket(prefix, <<"t", "r", "a", "n", "s", "l", "a", "t", "e", "-", "y">>, NumToStr(t["translateY"]), <<"p", "x">>))
        \o PushIf(t["skewX"] # 0, Bracket(prefix, <<"s", "k", "e", "w", "-", "x">>, NumToStr(t["skewX"]), <<"d", "e", "g">>))
        \o PushIf(t["skewY"] # 0, Bracket(prefix, <<"s", "k", "e", "w", "-", "y">>, NumToStr(t["skewY"]), <<"d", "e", "g">>))

EffectClasses(st, prefix) ==
    LET e == st["effects"]
    IN  PushIf(e["opacity"] # 100, Bracket(prefix, <<"o", "p", "a", "c", "i", "t", "y">>, Div100Str(e["opacity"]), << >>))
        \o PushIf(e["blur"] > 0, Bracket(prefix, <<"b", "l", "u", "r">>, NumToStr(e["blur"]), <<"p", "x">>))
        \o PushIf(e["backdropBlur"] > 0,
                  Bracket(prefix, <<"b", "a", "c", "k", "d", "r", "o", "p", "-", "b", "l", "u", "r">>, NumToStr(e["backdropBlur"]), <<"p", "x">>))
        \o PushIf(e["hueRotate"] # 0,
                  Bracket(prefix, <<"h", "u", "e", "-", "r", "o", "t", "a", "t", "e">>, NumToStr(e["hueRotate"]), <<"d", "e", "g">>))
        \o PushIf(e["saturation"] # 100,
                  Bracket(prefix, <<"s", "a", "t", "u", "r", "a", "t", "e">>, Div100Str(e["saturation"]), << >>))
        \o PushIf(e["brightness"] # 100,
                  Bracket(prefix, <<"b", "r", "i", "g", "h", "t", "n", "e", "s", "s">>, Div100Str(e["brightness"]), << >>))
        \o PushIf(e["contrast"] # 100,
                  Bracket(prefix, <<"c", "o", "n", "t", "r", "a", "s", "t">>, Div100Str(e["contrast"]), << >>))
        \o PushIf(e["grayscale"] > 0,
                  Bracket(prefix, <<"g", "r", "a", "y", "s", "c", "a", "l", "e">>, Div100Str(e["grayscale"]), << >>))
        \o PushIf(e["invert"] > 0, Bracket(prefix, <<"i", "n", "v", "e", "r", "t">>, Div100Str(e["invert"]), << >>))
        \o PushIf(e["sepia"] > 0, Bracket(prefix, <<"s", "e", "p", "i", "a">>, Div100Str(e["sepia"]), << >>))
        \o Keyword(prefix, <<"s", "h", "a", "d", "o", "w">>, e["shadow"], <<"n", "o", "n", "e">>)

\* variant: a border width class without the brackets
BorderWidthNoBracket(st, prefix) ==
    LET w == st["border"]["width"]
    IN  PushIf(Truthy(w) /\ w # <<"0">>, prefix \o <<"b", "o", "r", "d", "e", "r", "-">> \o w \o <<"p", "x">>)

\* if (state.border.width && state.border.width !== '0')
\*   classes.push(`${prefix}border-[${normalizeNumericValue(state.border.width)}px]`)
BorderWidthClass(st, prefix) ==
    LET w == st["border"]["width"]
    IN  PushIf(Truthy(w) /\ w # <<"0">>,
               Bracket(prefix, <<"b", "o", "r", "d", "e", "r">>, normalizeNumericValue(JsStr(w)), <<"p", "x">>))

BorderClasses(st, prefix) ==
    LET b == st["border"]
    IN  PushIf(b["radius"]["all"] > 0,
               Bracket(prefix, <<"r", "o", "u", "n", "d", "e", "d">>, NumToStr(b["radius"]["all"]), <<"p", "x">>))
        \o BorderWidthClass(st, prefix)
        \o PushIf(b["style"] # <<"s", "o", "l", "i", "d">> /\ b["style"] # <<"n", "o", "n", "e">>,
                  prefix \o <<"b", "o", "r", "d", "e", "r", "-">> \o b["style"])

\* variant: the margin block before the padding block
GeneratedClassListMarginFirst(st, breakpoint) ==
    LET prefix == Prefix(breakpoint)
    IN  MarginClasses(st, prefix)
        \o PaddingClasses(st, prefix)
        \o PositionClasses(st, prefix)
        \o SizeClasses(st, prefix)
        \o TypographyClasses(st, prefix)
        \o TransformClasses(st, prefix)
        \o EffectClasses(st, prefix)
        \o BorderClasses(st, prefix)
        \o st["tailwindClasses"]

\* the array classes of useGeneratedClasses before filter(Boolean).join(' ')
GeneratedClassList(st, breakpoint) ==
    LET prefix == Prefix(breakpoint)
    IN  PaddingClasses(st, prefix)
        \o MarginClasses(st, prefix)
        \o PositionClasses(st, prefix)
        \o SizeClasses(st, prefix)
        \o TypographyClasses(st, prefix)
        \o TransformClasses(st, prefix)
        \o EffectClasses(st, prefix)
        \o BorderClasses(st, prefix)
        \o st["tailwindClasses"]

\* variant: duplicates removed from the array before the join
useGeneratedClassesDedup(st, breakpoint) ==
    Join(SetOf(FilterBoolean(GeneratedClassList(st, breakpoint))))

\* useGeneratedClasses(state, breakpoint)
useGeneratedClasses(st, breakpoint) ==
    Join(FilterBoolean(GeneratedClassList(st, breakpoint)))

---------------------------------------------------------------------------
(* Inline styles: useGeneratedStyles and the previewStyles of PreviewBox.   *)
(* A style object is the sequence of its <<property, value>> entries in     *)
(* insertion order; a number value is written as its decimal string.        *)

EmptyStyles == << >>

\* key in styles
HasStyle(styles, key) == \E i \in DOMAIN styles : styles[i][1] = key

\* styles[key], for a key in styles
StyleOf(styles, key) == styles[CHOOSE i \in DOMAIN styles : styles[i][1] = key][2]

\* styles[key] = value: an existing property keeps its place
SetStyle(styles, key, value) ==
    IF HasStyle(styles, key)
    THEN [i \in DOMAIN styles |-> IF styles[i][1] = key THEN <<key, value>> ELSE styles[i]]
    ELSE Append(styles, <<key, value>>)

\* if (cond) styles[key] = value
SetStyleIf(cond, styles, key, value) ==
    IF cond THEN SetStyle(styles, key, value) ELSE styles

\* { ...a, ...b }
RECURSIVE SpreadStyles(_, _)
SpreadStyles(a, b) ==
    IF b = << >> THEN a
    ELSE SpreadStyles(SetStyle(a, Head(b)[1], Head(b)[2]), Tail(b))

\* s.split(sep), for a one-character separator
RECURSIVE Split(_, _)
Split(s, sep) ==
    IF \A i \in DOMAIN s : s[i] # sep THEN <<s>>
    ELSE LET i == CHOOSE i \in DOMAIN s : s[i] = sep /\ \A j \in 1..(i - 1) : s[j] # sep
         IN  <<SubSeq(s, 1, i - 1)>> \o Split(SubSeq(s, i + 1, Len(s)), sep)

LowerCase == <<"a", "b", "c", "d", "e", "f", "g", "h", "i", "j", "k", "l", "m",
               "n", "o", "p", "q", "r", "s", "t", "u", "v", "w", "x", "y", "z">>

UpperCase == <<"A", "B", "C", "D", "E", "F", "G", "H", "I", "J", "K", "L", "M",
               "N", "O", "P", "Q", "R", "S", "T", "U", "V", "W", "X", "Y", "Z">>

\* c.toUpperCase(), for a lower-case letter
ToUpperCase(c) == UpperCase[CHOOSE i \in DOMAIN LowerCase : LowerCase[i] = c]

\* prop.replace(/-([a-z])/g, g => g[1].toUpperCase())
RECURSIVE CamelProp(_)
CamelProp(prop) ==
    IF prop = EmptyStr THEN EmptyStr
    ELSE IF Len(prop) >= 2 /\ prop[1] = "-" /\ prop[2] \in Letters
    THEN <<ToUpperCase(prop[2])>> \o CamelProp(SubSeq(prop, 3, Len(prop)))
    ELSE <<prop[1]>> \o CamelProp(Tail(prop))

\* one pass of cssLines.forEach: [prop, val] = line.split(':').map(s => s.trim())
CssLine(styles, line) ==
    LET parts == Split(line, ":")
        prop == Trim(parts[1])
        val == IF Len(parts) >= 2 THEN Trim(parts[2]) ELSE EmptyStr
    IN  SetStyleIf(Truthy(prop) /\ Truthy(val), styles, CamelProp(prop), val)

RECURSIVE CssLines(_, _)
CssLines(styles, cssLines) ==
    IF cssLines = << >> THEN styles
    ELSE CssLines(CssLine(styles, Head(cssLines)), Tail(cssLines))

\* the inline CSS parsing of useGeneratedStyles, applied to styles
InlineCSSStyles(styles, inlineCSS) ==
    IF Truthy(inlineCSS)
    THEN CssLines(styles, FilterBoolean(Split(inlineCSS, ";")))
    ELSE styles

\* `${fn}(${n}${unit})`
FnCall(fn, arg, unit) == fn \o <<"(">> \o arg \o unit \o <<")">>

\* the transforms3D array of useGeneratedStyles
Transforms3DList(st) ==
    LET t == st["transforms3D"]
    IN  PushIf(t["rotateX"] # 0, FnCall(<<"r", "o", "t", "a", "t", "e", "X">>, NumToStr(t["rotateX"]), <<"d", "e", "g">>))
            \o PushIf(t["rotateY"] # 0, FnCall(<<"r", "o", "t", "a", "t", "e", "Y">>, NumToStr(t["rotateY"]), <<"d", "e", "g">>))
            \o PushIf(t["rotateZ"] # 0, FnCall(<<"r", "o", "t", "a", "t", "e", "Z">>, NumToStr(t["rotateZ"]), <<"d", "e", "g">>))

\* if (state.appearance.blendMode !== 'normal') styles.mixBlendMode = ...
BlendModeStyle(styles, st) ==
    SetStyleIf(st["appearance"]["blendMode"] # <<"n", "o", "r", "m", "a", "l">>,
               styles, <<"m", "i", "x", "B", "l", "e", "n", "d", "M", "o", "d", "e">>, st["appearance"]["blendMode"])

useGeneratedStyles(st) ==
    LET s1 == SetStyleIf(Truthy(st["typography"]["textColor"]),
                         EmptyStyles, <<"c", "o", "l", "o", "r">>, st["typography"]["textColor"])
        s2 == SetStyleIf(Truthy(st["appearance"]["backgroundColor"]),
                         s1, <<"b", "a", "c", "k", "g", "r", "o", "u", "n", "d", "C", "o", "l", "o", "r">>, st["appearance"]["backgroundColor"])
        s3 == SetStyleIf(Truthy(st["border"]["color"]),
                         s2, <<"b", "o", "r", "d", "e", "r", "C", "o", "l", "o", "r">>, st["border"]["color"])
        transforms3D == Transforms3DList(st)
        s4 == SetStyleIf(Len(transforms3D) > 0, s3, <<"t", "r", "a", "n", "s", "f", "o", "r", "m">>, Join(transforms3D))
        s5 == SetStyleIf(st["transforms3D"]["perspective"] > 0,
                         s4, <<"p", "e", "r", "s", "p", "e", "c", "t", "i", "v", "e">>,
                         NumToStr(st["transforms3D"]["perspective"] * 100) \o <<"p", "x">>)
        s6 == BlendModeStyle(s5, st)
        s7 == SetStyleIf(Truthy(st["appearance"]["backgroundImage"]),
                         s6, <<"b", "a", "c", "k", "g", "r", "o", "u", "n", "d", "I", "m", "a", "g", "e">>,
                         FnCall(<<"u", "r", "l">>, st["appearance"]["backgroundImage"], << >>))
    IN  InlineCSSStyles(s7, st["inlineCSS"])

---------------------------------------------------------------------------
(* preview-box-utils, which PreviewBox imports: written from the data model *)
(* (whole percentages divided by 100 at generation time, one px appended to *)
(* a normalized number, nothing generated for a default or zero value)      *)

\* CONSTANTS.DEFAULT_OPACITY
DEFAULT_OPACITY == 100

\* `${n}px` of a stored spacing value, 0 for an empty one
Px(raw) ==
    LET n == normalizeNumericValue(JsStr(raw))
    IN  (IF Truthy(n) THEN n ELSE <<"0">>) \o <<"p", "x">>

\* the stored spacing value is empty or zero
IsZero(raw) ==
    LET n == normalizeNumericValue(JsStr(raw))
    IN  ~Truthy(n) \/ n = <<"0">>

buildTransforms(st) ==
    LET t == st["transforms"]
    IN  Join(PushIf(t["rotate"] # 0, FnCall(<<"r", "o", "t", "a", "t", "e">>, NumToStr(t["rotate"]), <<"d", "e", "g">>))
               \o PushIf(t["scale"] # 100, FnCall(<<"s", "c", "a", "l", "e">>, Div100Str(t["scale"]), << >>))
               \o PushIf(t["translateX"] # 0,
                         FnCall(<<"t", "r", "a", "n", "s", "l", "a", "t", "e", "X">>, NumToStr(t["translateX"]), <<"p", "x">>))
               \o PushIf(t["translateY"] # 0,
                         FnCall(<<"t", "r", "a", "n", "s", "l", "a", "t", "e", "Y">>, NumToStr(t["translateY"]), <<"p", "x">>))
               \o PushIf(t["skewX"] # 0, FnCall(<<"s", "k", "e", "w", "X">>, NumToStr(t["skewX"]), <<"d", "e", "g">>))
               \o PushIf(t["skewY"] # 0, FnCall(<<"s", "k", "e", "w", "Y">>, NumToStr(t["skewY"]), <<"d", "e", "g">>))
               \o Transforms3DList(st))

buildFilters(st) ==
    LET e == st["effects"]
    IN  Join(PushIf(e["blur"] > 0, FnCall(<<"b", "l", "u", "r">>, NumToStr(e["blur"]), <<"p", "x">>))
               \o PushIf(e["hueRotate"] # 0,
                         FnCall(<<"h", "u", "e", "-", "r", "o", "t", "a", "t", "e">>, NumToStr(e["hueRotate"]), <<"d", "e", "g">>))
               \o PushIf(e["saturation"] # 100,
                         FnCall(<<"s", "a", "t", "u", "r", "a", "t", "e">>, Div100Str(e["saturation"]), << >>))
               \o PushIf(e["brightness"] # 100,
                         FnCall(<<"b", "r", "i", "g", "h", "t", "n", "e", "s", "s">>, Div100Str(e["brightness"]), << >>))
               \o PushIf(e["contrast"] # 100,
                         FnCall(<<"c", "o", "n", "t", "r", "a", "s", "t">>, Div100Str(e["contrast"]), << >>))
               \o PushIf(e["grayscale"] > 0,
                         FnCall(<<"g", "r", "a", "y", "s", "c", "a", "l", "e">>, Div100Str(e["grayscale"]), << >>))
               \o PushIf(e["invert"] > 0, FnCall(<<"i", "n", "v", "e", "r", "t">>, Div100Str(e["invert"]), << >>))
               \o PushIf(e["sepia"] > 0, FnCall(<<"s", "e", "p", "i", "a">>, Div100Str(e["sepia"]), << >>)))

buildBorderRadius(st) ==
    LET r == st["border"]["radius"]
    IN  IF r["tl"] > 0 \/ r["tr"] > 0 \/ r["br"] > 0 \/ r["bl"] > 0
        THEN Join(<<NumToStr(r["tl"]) \o <<"p", "x">>, NumToStr(r["tr"]) \o <<"p", "x">>,
                    NumToStr(r["br"]) \o <<"p", "x">>, NumToStr(r["bl"]) \o <<"p", "x">>>>)
        ELSE IF r["all"] > 0 THEN NumToStr(r["all"]) \o <<"p", "x">>
        ELSE EmptyStr

buildBorder(st) ==
    LET b == st["border"]
    IN  IF IsZero(b["width"]) THEN EmptyStr
        ELSE Join(<<Px(b["width"]), b["style"]>> \o PushIf(Truthy(b["color"]), b["color"]))

buildPadding(st) ==
    LET p == st["padding"]
    IN  IF IsZero(p["t"]) /\ IsZero(p["r"]) /\ IsZero(p["b"]) /\ IsZero(p["l"])
        THEN EmptyStr
        ELSE Join(<<Px(p["t"]), Px(p["r"]), Px(p["b"]), Px(p["l"])>>)

buildMargin(st) ==
    LET m == st["margin"]
    IN  IF IsZero(m["y"]) /\ IsZero(m["x"]) THEN EmptyStr
        ELSE Join(<<Px(m["y"]), Px(m["x"])>>)

SizeKeywords == {<<"a", "u", "t", "o">>, <<"f", "i", "t", "-", "c", "o", "n", "t", "e", "n", "t">>, <<"m", "a", "x", "-", "c", "o", "n", "t", "e", "n", "t">>, <<"m", "i", "n", "-", "c", "o", "n", "t", "e", "n", "t">>}

\* normalizeNumericValue(value, unit, keywords) of preview-box-utils: a
\* keyword or a value that carries a unit is kept, a bare number gets the unit
normalizeWithUnit(value, unit, keywords) ==
    LET str == Trim(value)
    IN  IF str \in keywords THEN str
        ELSE IF str # EmptyStr /\ NumMatch(str) = str THEN str \o unit
        ELSE str

---------------------------------------------------------------------------

\* the previewStyles memo of PreviewBox
previewStyles(st, generatedStyles, isFocused) ==
    LET transformValue == buildTransforms(st)
        filterValue == buildFilters(st)
        borderRadiusValue == buildBorderRadius(st)
        borderValue == buildBorder(st)
        paddingValue == buildPadding(st)
        marginValue == buildMargin(st)
        effects == st["effects"]
        size == st["size"]
        typography == st["typography"]
        appearance == st["appearance"]
        s0 == SpreadStyles(EmptyStyles, generatedStyles)
        s1 == SetStyleIf(Truthy(transformValue), s0, <<"t", "r", "a", "n", "s", "f", "o", "r", "m">>, transformValue)
        s2 == SetStyleIf(Truthy(filterValue), s1, <<"f", "i", "l", "t", "e", "r">>, filterValue)
        s3 == SetStyleIf(effects["backdropBlur"] > 0, s2, <<"b", "a", "c", "k", "d", "r", "o", "p", "F", "i", "l", "t", "e", "r">>,
                         FnCall(<<"b", "l", "u", "r">>, NumToStr(effects["backdropBlur"]), <<"p", "x">>))
        s4 == SetStyleIf(effects["opacity"] # DEFAULT_OPACITY, s3, <<"o", "p", "a", "c", "i", "t", "y">>,
                         Div100Str(effects["opacity"]))
        s5 == SetStyleIf(Truthy(borderRadiusValue), s4, <<"b", "o", "r", "d", "e", "r", "R", "a", "d", "i", "u", "s">>, borderRadiusValue)
        s6 == SetStyleIf(Truthy(borderValue), s5, <<"b", "o", "r", "d", "e", "r">>, borderValue)
        s7 == SetStyleIf(Truthy(paddingValue), s6, <<"p", "a", "d", "d", "i", "n", "g">>, paddingValue)
        s8 == SetStyleIf(Truthy(marginValue), s7, <<"m", "a", "r", "g", "i", "n">>, marginValue)
        s9 == SetStyleIf(Truthy(size["width"]), s8, <<"w", "i", "d", "t", "h">>,
                         normalizeWithUnit(size["width"], <<"p", "x">>, SizeKeywords))
        s10 == SetStyleIf(Truthy(size["height"]), s9, <<"h", "e", "i", "g", "h", "t">>,
                          normalizeWithUnit(size["height"], <<"p", "x">>, SizeKeywords))
        s11 == SetStyleIf(Truthy(typography["fontSize"]), s10, <<"f", "o", "n", "t", "S", "i", "z", "e">>,
                          normalizeWithUnit(typography["fontSize"], <<"p", "x">>, {}))
        s12 == SetStyleIf(Truthy(typography["fontWeight"])
                              /\ typography["fontWeight"] # <<"n", "o", "r", "m", "a", "l">>,
                          s11, <<"f", "o", "n", "t", "W", "e", "i", "g", "h", "t">>, typography["fontWeight"])
        s13 == SetStyleIf(Truthy(typography["textAlign"])
                              /\ typography["textAlign"] # <<"l", "e", "f", "t">>,
                          s12, <<"t", "e", "x", "t", "A", "l", "i", "g", "n">>, typography["textAlign"])
        s14 == SetStyleIf(Truthy(typography["textColor"]), s13, <<"c", "o", "l", "o", "r">>,
                          typography["textColor"])
        s15 == SetStyleIf(Truthy(appearance["backgroundColor"]), s14, <<"b", "a", "c", "k", "g", "r", "o", "u", "n", "d", "C", "o", "l", "o", "r">>,
                          appearance["backgroundColor"])
        s16 == SetStyleIf(Truthy(appearance["blendMode"])
                              /\ appearance["blendMode"] # <<"n", "o", "r", "m", "a", "l">>,
                          s15, <<"m", "i", "x", "B", "l", "e", "n", "d", "M", "o", "d", "e">>, appearance["blendMode"])
        s17 == SetStyleIf(isFocused, s16, <<"o", "u", "t", "l", "i", "n", "e">>, <<"2", "p", "x", " ", "s", "o", "l", "i", "d", " ", "h", "s", "l", "(", "v", "a", "r", "(", "-", "-", "r", "i", "n", "g", ")", ")">>)
    IN  SetStyleIf(isFocused, s17, <<"o", "u", "t", "l", "i", "n", "e", "O", "f", "f", "s", "e", "t">>, <<"2", "p", "x">>)

---------------------------------------------------------------------------
(* The exports: useGeneratedCode and useExportCSS *)

\* lines.join('\n')
RECURSIVE JoinLines(_)
JoinLines(lines) ==
    IF lines = << >> THEN EmptyStr
    ELSE IF Len(lines) = 1 THEN lines[1]
    ELSE lines[1] \o <<"\n">> \o JoinLines(Tail(lines))

\* the array lines of useExportCSS
ExportLines(state0) ==
    LET
        \* `  ${prop}: ${value};`
        Declaration(prop, value) == <<" ", " ">> \o prop \o <<":", " ">> \o value \o <<";">>

        \* state.padding.t ? normalizeNumericValue(state.padding.t) : '0'
        ExportNumber(raw) == IF Truthy(raw) THEN normalizeNumericValue(JsStr(raw)) ELSE <<"0">>

        ExportPadding(st) ==
            LET p == st["padding"]
                padding == ExportNumber(p["t"]) \o <<"p", "x", " ">> \o ExportNumber(p["r"]) \o <<"p", "x", " ">>
                               \o ExportNumber(p["b"]) \o <<"p", "x", " ">> \o ExportNumber(p["l"]) \o <<"p", "x">>
            IN  PushIf(padding # <<"0", "p", "x", " ", "0", "p", "x", " ", "0", "p", "x", " ", "0", "p", "x">>, Declaration(<<"p", "a", "d", "d", "i", "n", "g">>, padding))

        ExportMargin(st) ==
            LET marginY == ExportNumber(st["margin"]["y"])
                marginX == ExportNumber(st["margin"]["x"])
            IN  PushIf(st["margin"]["x"] # <<"0">> \/ st["margin"]["y"] # <<"0">>,
                       Declaration(<<"m", "a", "r", "g", "i", "n">>, marginY \o <<"p", "x", " ">> \o marginX \o <<"p", "x">>))

        ExportPosition(st) ==
            LET p == st["position"]
            IN  PushIf(p["type"] # <<"s", "t", "a", "t", "i", "c">>, Declaration(<<"p", "o", "s", "i", "t", "i", "o", "n">>, p["type"]))
                    \o PushIf(Truthy(p["l"]), Declaration(<<"l", "e", "f", "t">>, p["l"]))
                    \o PushIf(Truthy(p["t"]), Declaration(<<"t", "o", "p">>, p["t"]))
                    \o PushIf(Truthy(p["r"]), Declaration(<<"r", "i", "g", "h", "t">>, p["r"]))
                    \o PushIf(Truthy(p["b"]), Declaration(<<"b", "o", "t", "t", "o", "m">>, p["b"]))
                    \o PushIf(Truthy(p["zIndex"]), Declaration(<<"z", "-", "i", "n", "d", "e", "x">>, p["zIndex"]))

        ExportSize(st) ==
            PushIf(Truthy(st["size"]["width"]), Declaration(<<"w", "i", "d", "t", "h">>, st["size"]["width"]))
                \o PushIf(Truthy(st["size"]["height"]), Declaration(<<"h", "e", "i", "g", "h", "t">>, st["size"]["height"]))

        ExportTypography(st) ==
            LET t == st["typography"]
            IN  PushIf(Truthy(t["fontSize"]), Declaration(<<"f", "o", "n", "t", "-", "s", "i", "z", "e">>, t["fontSize"]))
                    \o PushIf(t["fontWeight"] # <<"n", "o", "r", "m", "a", "l">>, Declaration(<<"f", "o", "n", "t", "-", "w", "e", "i", "g", "h", "t">>, t["fontWeight"]))
                    \o PushIf(Truthy(t["textColor"]), Declaration(<<"c", "o", "l", "o", "r">>, t["textColor"]))
                    \o PushIf(t["textAlign"] # <<"l", "e", "f", "t">>, Declaration(<<"t", "e", "x", "t", "-", "a", "l", "i", "g", "n">>, t["textAlign"]))
                    \o PushIf(Truthy(st["appearance"]["backgroundColor"]),
                              Declaration(<<"b", "a", "c", "k", "g", "r", "o", "u", "n", "d", "-", "c", "o", "l", "o", "r">>, st["appearance"]["backgroundColor"]))

        ExportBorder(st) ==
            LET b == st["border"]
            IN  PushIf(b["radius"]["all"] > 0,
                       Declaration(<<"b", "o", "r", "d", "e", "r", "-", "r", "a", "d", "i", "u", "s">>, NumToStr(b["radius"]["all"]) \o <<"p", "x">>))
                    \o PushIf(Truthy(b["color"]) /\ b["width"] # <<"0">>,
                              Declaration(<<"b", "o", "r", "d", "e", "r">>, b["width"] \o <<"p", "x", " ">>
                                                         \o b["style"] \o <<" ">> \o b["color"]))

        ExportTransforms(st) ==
            LET t == st["transforms"]
                transforms ==
                    PushIf(t["translateX"] # 0, FnCall(<<"t", "r", "a", "n", "s", "l", "a", "t", "e", "X">>, NumToStr(t["translateX"]), <<"p", "x">>))
                        \o PushIf(t["translateY"] # 0, FnCall(<<"t", "r", "a", "n", "s", "l", "a", "t", "e", "Y">>, NumToStr(t["translateY"]), <<"p", "x">>))
                        \o PushIf(t["rotate"] # 0, FnCall(<<"r", "o", "t", "a", "t", "e">>, NumToStr(t["rotate"]), <<"d", "e", "g">>))
                        \o PushIf(t["scale"] # 100, FnCall(<<"s", "c", "a", "l", "e">>, Div100Str(t["scale"]), << >>))
                        \o PushIf(t["skewX"] # 0, FnCall(<<"s", "k", "e", "w", "X">>, NumToStr(t["skewX"]), <<"d", "e", "g">>))
                        \o PushIf(t["skewY"] # 0, FnCall(<<"s", "k", "e", "w", "Y">>, NumToStr(t["skewY"]), <<"d", "e", "g">>))
                        \o Transforms3DList(st)
            IN  PushIf(Len(transforms) > 0, Declaration(<<"t", "r", "a", "n", "s", "f", "o", "r", "m">>, Join(transforms)))
                    \o PushIf(st["transforms3D"]["perspective"] > 0,
                              Declaration(<<"p", "e", "r", "s", "p", "e", "c", "t", "i", "v", "e">>,
                                          NumToStr(st["transforms3D"]["perspective"] * 100) \o <<"p", "x">>))

        ExportEffects(st) ==
            LET e == st["effects"]
                filters ==
                    PushIf(e["blur"] > 0, FnCall(<<"b", "l", "u", "r">>, NumToStr(e["blur"]), <<"p", "x">>))
                        \o PushIf(e["brightness"] # 100, FnCall(<<"b", "r", "i", "g", "h", "t", "n", "e", "s", "s">>, Div100Str(e["brightness"]), << >>))
                        \o PushIf(e["saturation"] # 100, FnCall(<<"s", "a", "t", "u", "r", "a", "t", "e">>, Div100Str(e["saturation"]), << >>))
                        \o PushIf(e["contrast"] # 100, FnCall(<<"c", "o", "n", "t", "r", "a", "s", "t">>, Div100Str(e["contrast"]), << >>))
                        \o PushIf(e["hueRotate"] # 0, FnCall(<<"h", "u", "e", "-", "r", "o", "t", "a", "t", "e">>, NumToStr(e["hueRotate"]), <<"d", "e", "g">>))
                        \o PushIf(e["grayscale"] > 0, FnCall(<<"g", "r", "a", "y", "s", "c", "a", "l", "e">>, Div100Str(e["grayscale"]), << >>))
                        \o PushIf(e["invert"] > 0, FnCall(<<"i", "n", "v", "e", "r", "t">>, Div100Str(e["invert"]), << >>))
                        \o PushIf(e["sepia"] > 0, FnCall(<<"s", "e", "p", "i", "a">>, Div100Str(e["sepia"]), << >>))
            IN  PushIf(Len(filters) > 0, Declaration(<<"f", "i", "l", "t", "e", "r">>, Join(filters)))
                    \o PushIf(e["backdropBlur"] > 0,
                              Declaration(<<"b", "a", "c", "k", "d", "r", "o", "p", "-", "f", "i", "l", "t", "e", "r">>, FnCall(<<"b", "l", "u", "r">>, NumToStr(e["backdropBlur"]), <<"p", "x">>)))
                    \o PushIf(e["opacity"] # 100, Declaration(<<"o", "p", "a", "c", "i", "t", "y">>, Div100Str(e["opacity"])))
                    \o PushIf(e["shadow"] # <<"n", "o", "n", "e">>, <<" ", " ", "/", "*", " ", "s", "h", "a", "d", "o", "w", "-">> \o e["shadow"] \o <<" ", "*", "/">>)
        selector(st) ==
            IF Truthy(st["elementId"]) THEN <<"#">> \o st["elementId"] ELSE <<".", "e", "l", "e", "m", "e", "n", "t">>
    IN  <<selector(state0) \o <<" ", "{">>>>
            \o ExportPosition(state0)
            \o ExportSize(state0)
            \o ExportPadding(state0)
            \o ExportMargin(state0)
            \o ExportTypography(state0)
            \o ExportBorder(state0)
            \o ExportTransforms(state0)
            \o ExportEffects(state0)
            \o <<<<"}">>>>

useExportCSS(st) == JoinLines(ExportLines(st))

\* k.replace(/([A-Z])/g, '-$1').toLowerCase()
RECURSIVE KebabCase(_)
KebabCase(k) ==
    IF k = EmptyStr THEN EmptyStr
    ELSE (IF \E i \in DOMAIN UpperCase : UpperCase[i] = Head(k)
          THEN <<"-", LowerCase[CHOOSE i \in DOMAIN UpperCase : UpperCase[i] = Head(k)]>>
          ELSE <<Head(k)>>)
         \o KebabCase(Tail(k))

\* Object.entries(generatedStyles).map(([k, v]) => `${kebab(k)}: ${v}`).join('; ')
RECURSIVE StyleString(_)
StyleString(styles) ==
    IF styles = << >> THEN EmptyStr
    ELSE KebabCase(Head(styles)[1]) \o <<":", " ">> \o Head(styles)[2]
         \o (IF Tail(styles) = << >> THEN EmptyStr ELSE <<";", " ">>)
         \o StyleString(Tail(styles))

\* variant: the href attribute for every tag with a link
HrefAttrAnyTag(st) ==
    IF Truthy(st["link"]) THEN <<" ", "h", "r", "e", "f", "=", "\"">> \o st["link"] \o <<"\"">> ELSE EmptyStr

\* state.link && (state.tag === 'a' || state.tag === 'button') ? ` href="${state.link}"` : ''
HrefAttr(st) ==
    IF Truthy(st["link"]) /\ (st["tag"] = <<"a">> \/ st["tag"] = <<"b", "u", "t", "t", "o", "n">>)
    THEN <<" ", "h", "r", "e", "f", "=", "\"">> \o st["link"] \o <<"\"">>
    ELSE EmptyStr

useGeneratedCode(st, generatedClasses, generatedStyles) ==
    LET idAttr == IF Truthy(st["elementId"])
                  THEN <<" ", "i", "d", "=", "\"">> \o st["elementId"] \o <<"\"">> ELSE EmptyStr
        classAttr == IF Truthy(generatedClasses)
                     THEN <<" ", "c", "l", "a", "s", "s", "=", "\"">> \o generatedClasses \o <<"\"">> ELSE EmptyStr
        styleStr == StyleString(generatedStyles)
        styleAttr == IF Truthy(styleStr)
                     THEN <<" ", "s", "t", "y", "l", "e", "=", "\"">> \o styleStr \o <<"\"">> ELSE EmptyStr
    IN  <<"<">> \o st["tag"] \o idAttr \o classAttr \o styleAttr \o HrefAttr(st) \o <<">">>
            \o <<"\n">> \o <<" ", " ">> \o st["textContent"] \o <<"\n">>
            \o <<"<", "/">> \o st["tag"] \o <<">">>

---------------------------------------------------------------------------
(* The generators as pure functions: GenInit draws the state and the        *)
(* breakpoint handed to them, GenerateClasses applies useGeneratedClasses.  *)

Pad16 == [l |-> <<"1", "6">>, t |-> <<"1", "6">>, r |-> <<"1", "6">>, b |-> <<"1", "6">>]

Pad16px == [l |-> <<"1", "6", "p", "x">>, t |-> <<"1", "6", "p", "x">>, r |-> <<"1", "6", "p", "x">>, b |-> <<"1", "6", "p", "x">>]

\* the field values drawn: <<key, value>> replaces a top-level field,
\* <<key, nestedKey, value>> a field of a group,
\* <<key, nestedKey, deepKey, value>> a field of border.radius
GenEdits ==
    << <<"padding", Pad16>>,
       <<"padding", Pad16px>>,
       <<"padding", "l", <<"1", "6", "p", "x">>>>,
       <<"padding", "l", <<"4">>>>,
       <<"padding", "l", <<"0", "p", "x">>>>,
       <<"padding", "l", <<" ", "1", "7", " ">>>>,
       <<"padding", "l", << >>>>,
       <<"padding", "t", <<"8", "p", "x">>>>,
       <<"padding", "r", <<"-", "4">>>>,
       <<"padding", "b", <<"2", ".", "5">>>>,
       <<"margin", "x", <<"4">>>>,
       <<"margin", "x", <<"0", "p", "x">>>>,
       <<"margin", "y", <<"1", "2", "p", "x">>>>,
       <<"position", "type", <<"r", "e", "l", "a", "t", "i", "v", "e">>>>,
       <<"position", "zIndex", <<"1", "0">>>>,
       <<"position", "zIndex", <<"0">>>>,
       <<"position", "l", <<"1", "6">>>>,
       <<"position", "t", <<"0">>>>,
       <<"size", "width", <<"3", "2", "0">>>>,
       <<"size", "width", <<"5", "0", "%">>>>,
       <<"size", "height", <<"1", "0", "r", "e", "m">>>>,
       <<"size", "maxWidth", <<"a", "u", "t", "o">>>>,
       <<"typography", "fontWeight", <<"b", "o", "l", "d">>>>,
       <<"typography", "fontSize", <<"1", "8">>>>,
       <<"typography", "textAlign", <<"c", "e", "n", "t", "e", "r">>>>,
       <<"transforms", "scale", 150>>,
       <<"transforms", "rotate", 45>>,
       <<"transforms3D", "perspective", 5>>,
       <<"transforms3D", "rotateX", 30>>,
       <<"effects", "opacity", 50>>,
       <<"effects", "blur", 4>>,
       <<"effects", "shadow", <<"l", "g">>>>,
       <<"border", "width", <<"2">>>>,
       <<"border", "width", <<"2", "p", "x">>>>,
       <<"border", "width", <<"0", "p", "x">>>>,
       <<"border", "style", <<"d", "a", "s", "h", "e", "d">>>>,
       <<"border", "color", <<"r", "e", "d">>>>,
       <<"border", "radius", "all", 8>>,
       <<"appearance", "blendMode", <<"m", "u", "l", "t", "i", "p", "l", "y">>>>,
       <<"appearance", "backgroundColor", <<"b", "l", "u", "e">>>>,
       <<"appearance", "backgroundImage", <<"a", ".", "p", "n", "g">>>>,
       <<"typography", "textColor", <<"r", "e", "d">>>>,
       <<"transforms3D", "rotateZ", -15>>,
       <<"tag", <<"b", "u", "t", "t", "o", "n">>>>,
       <<"tag", <<"a">>>>,
       <<"link", <<"h", "t", "t", "p", "s", ":", "/", "/", "x">>>>,
       <<"elementId", <<"h", "e", "r", "o">>>>,
       <<"inlineCSS", <<"o", "p", "a", "c", "i", "t", "y", ":", " ", "0", ".", "5">>>>,
       <<"inlineCSS", <<"b", "a", "c", "k", "g", "r", "o", "u", "n", "d", ":", " ", "u", "r", "l", "(", "a", ":", "b", ")">>>>,
       <<"inlineCSS", <<"m", "i", "x", "-", "b", "l", "e", "n", "d", "-", "m", "o", "d", "e", ":", "s", "c", "r", "e", "e", "n", ";", ";", "c", "o", "l", "o", "r">>>>,
       <<"inlineCSS", <<" ", "f", "o", "n", "t", "-", "w", "e", "i", "g", "h", "t", " ", ":", " ", "7", "0", "0", " ", ";", " ", "t", "r", "a", "n", "s", "f", "o", "r", "m", ":", "s", "c", "a", "l", "e", "(", "2", ")">>>>,
       <<"tailwindClasses", <<<<"f", "l", "e", "x">>>> >>,
       <<"tailwindClasses", <<<< >>, <<"p", "-", "4">>>> >>,
       <<"tailwindClasses", <<<<"p", "l", "-", "[", "1", "6", "p", "x", "]">>, <<"f", "l", "e", "x">>, <<"f", "l", "e", "x">>>> >> >>

\* the breakpoints drawn: base and two prefixed ones
GenBreakpoints == {"base", "sm", "md"}

ApplyEdit(st, e) ==
    CASE Len(e) = 2 -> updateStateBase(st, e[1], e[2])
      [] Len(e) = 3 -> updateNestedStateBase(st, e[1], e[2], e[3])
      [] Len(e) = 4 -> updateDeepNestedStateBase(st, e[1], e[2], e[3], e[4])

\* the edits numbered in idxs applied to st in the order of GenEdits
RECURSIVE ApplyEdits(_, _, _)
ApplyEdits(st, idxs, i) ==
    IF i > Len(GenEdits) THEN st
    ELSE ApplyEdits(IF i \in idxs THEN ApplyEdit(st, GenEdits[i]) ELSE st, idxs, i + 1)

\* the sets of at most n edit numbers
RECURSIVE EditSets(_)
EditSets(n) ==
    IF n = 0 THEN {{}}
    ELSE LET smaller == EditSets(n - 1)
         IN  smaller \cup {s \cup {i} : s \in smaller, i \in DOMAIN GenEdits}

GenInit ==
    /\ \E idxs \in EditSets(MaxGenEdits) :
          genState = ApplyEdits(DEFAULT_INSPECTOR_STATE, idxs, 1)
    /\ genBp \in GenBreakpoints
    /\ genClasses = EmptyStr
    /\ genStyles = EmptyStyles
    /\ genFocused = FALSE
    /\ genPreview = EmptyStyles
    /\ genHtml = EmptyStr
    /\ genCss = EmptyStr
    /\ genPc = "start"

GenerateClasses ==
    /\ genPc = "start"
    /\ genClasses' = useGeneratedClasses(genState, genBp)
    /\ genPc' = "classes"
    /\ UNCHANGED <<genState, genBp, genStyles, genFocused, genPreview, genHtml, genCss,
                   normVars, storeVars, memoVars, codeVars>>

GenerateStyles ==
    /\ genPc = "classes"
    /\ genStyles' = useGeneratedStyles(genState)
    /\ genPc' = "styles"
    /\ UNCHANGED <<genState, genBp, genClasses, genFocused, genPreview, genHtml, genCss,
                   normVars, storeVars, memoVars, codeVars>>

\* PreviewBox renders with the generated styles, focused or not
ComputePreviewStyles ==
    /\ genPc = "styles"
    /\ \E isFocused \in BOOLEAN :
          /\ genFocused' = isFocused
          /\ genPreview' = previewStyles(genState, genStyles, isFocused)
    /\ genPc' = "preview"
    /\ UNCHANGED <<genState, genBp, genClasses, genStyles, genHtml, genCss, normVars, storeVars, memoVars, codeVars>>

GenNext == GenerateClasses \/ GenerateStyles \/ ComputePreviewStyles

\* the component hands the classes and styles of this render to useGeneratedCode
GenerateCode ==
    /\ genPc = "styles"
    /\ genHtml' = useGeneratedCode(genState, genClasses, genStyles)
    /\ genPc' = "code"
    /\ UNCHANGED <<genState, genBp, genClasses, genStyles, genFocused, genPreview,
                   genCss, normVars, storeVars, memoVars, codeVars>>

ExportCSS ==
    /\ genPc = "code"
    /\ genCss' = useExportCSS(genState)
    /\ genPc' = "css"
    /\ UNCHANGED <<genState, genBp, genClasses, genStyles, genFocused, genPreview,
                   genHtml, normVars, storeVars, memoVars, codeVars>>

ExportNext == GenerateClasses \/ GenerateStyles \/ GenerateCode \/ ExportCSS

GenIdle ==
    /\ genState = DEFAULT_INSPECTOR_STATE
    /\ genBp = "base"
    /\ genClasses = EmptyStr
    /\ genStyles = EmptyStyles
    /\ genFocused = FALSE
    /\ genPreview = EmptyStyles
    /\ genHtml = EmptyStr
    /\ genCss = EmptyStr
    /\ genPc = "start"

---------------------------------------------------------------------------
(* The normalizer as a pure function: its argument is drawn in NormInit,    *)
(* NormalizeOnce applies it, NormalizeTwice applies it to its own result.   *)

NormAlphabet == {"0", "4", ".", "-", "p", "x", " "}

StringsUpTo(alphabet, n) == UNION {[1..k -> alphabet] : k \in 0..n}

ExampleStrings ==
    { <<"1", "6", "p", "x">>,
      <<"-", "4", ".", "5", "r", "e", "m">>,
      <<"2", ".", "5", "r", "e", "m">>,
      <<"a", "u", "t", "o">> }

NormInputs ==
    {JsStr(s) : s \in StringsUpTo(NormAlphabet, MaxStrLen) \cup ExampleStrings}
        \cup {JsNum(n) : n \in (-MaxNum)..MaxNum}
        \cup {JsNull, JsUndefined}

NormInit ==
    /\ normIn \in NormInputs
    /\ normOut = EmptyStr
    /\ normOut2 = EmptyStr
    /\ normPc = "start"

NormalizeOnce ==
    /\ normPc = "start"
    /\ normOut' = normalizeNumericValue(normIn)
    /\ normPc' = "once"
    /\ UNCHANGED <<normIn, normOut2, storeVars, genVars, memoVars, codeVars>>

NormalizeTwice ==
    /\ normPc = "once"
    /\ normOut2' = normalizeNumericValue(JsStr(normOut))
    /\ normPc' = "twice"
    /\ UNCHANGED <<normIn, normOut, storeVars, genVars, memoVars, codeVars>>

NormNext == NormalizeOnce \/ NormalizeTwice

---------------------------------------------------------------------------
(* The memoized useGeneratedClasses: useMemo keeps the class string and     *)
(* the dependency list of the render that computed it, and computes again   *)
(* only when an entry of the list differs from the stored one.              *)

\* JSON.stringify of one string: quoted, quotes and backslashes escaped
RECURSIVE JsonString(_)
JsonString(s) ==
    IF s = << >> THEN << >>
    ELSE (IF Head(s) \in {"\"", "\\"} THEN <<"\\", Head(s)>> ELSE <<Head(s)>>)
         \o JsonString(Tail(s))

RECURSIVE JsonItems(_)
JsonItems(arr) ==
    IF arr = << >> THEN << >>
    ELSE <<"\"">> \o JsonString(Head(arr)) \o <<"\"">>
         \o (IF Tail(arr) = << >> THEN << >> ELSE <<",">>)
         \o JsonItems(Tail(arr))

\* JSON.stringify(state.tailwindClasses)
JsonStringify(arr) == <<"[">> \o JsonItems(arr) \o <<"]">>

\* variant: the list without the user classes
MemoDepsNoUserClasses(st, prefix) ==
    <<prefix,
      st["padding"]["l"], st["padding"]["t"], st["padding"]["r"], st["padding"]["b"],
      st["margin"]["x"], st["margin"]["y"],
      st["position"]["type"], st["position"]["zIndex"],
      st["position"]["l"], st["position"]["t"], st["position"]["r"], st["position"]["b"],
      st["size"]["width"], st["size"]["height"],
      st["size"]["maxWidth"], st["size"]["maxHeight"],
      st["size"]["minWidth"], st["size"]["minHeight"],
      st["typography"]["fontFamily"], st["typography"]["fontWeight"],
      st["typography"]["fontSize"], st["typography"]["letterSpacing"],
      st["typography"]["lineHeight"], st["typography"]["textAlign"],
      st["transforms"]["rotate"], st["transforms"]["scale"],
      st["transforms"]["translateX"], st["transforms"]["translateY"],
      st["transforms"]["skewX"], st["transforms"]["skewY"],
      st["effects"]["opacity"], st["effects"]["blur"], st["effects"]["backdropBlur"],
      st["effects"]["hueRotate"], st["effects"]["saturation"], st["effects"]["brightness"],
      st["effects"]["contrast"], st["effects"]["grayscale"], st["effects"]["invert"],
      st["effects"]["sepia"], st["effects"]["shadow"],
      st["border"]["radius"]["all"], st["border"]["width"], st["border"]["style"]>>

\* the dependency list of the useMemo call
MemoDeps(st, prefix) ==
    MemoDepsNoUserClasses(st, prefix) \o <<JsonStringify(st["tailwindClasses"])>>

MemoInit ==
    /\ memoState = DEFAULT_INSPECTOR_STATE
    /\ memoBp = "base"
    /\ memoHas = FALSE
    /\ memoDeps = << >>
    /\ memoValue = EmptyStr
    /\ memoHit = FALSE
    /\ nMemo = 0
    /\ memoPc = "update"

\* a render of the component: useMemo compares the list with the stored one
MemoRender ==
    /\ memoPc = "update"
    /\ LET deps == MemoDeps(memoState, Prefix(memoBp))
           same == memoHas /\ deps = memoDeps
       IN  /\ memoHit' = same
           /\ memoDeps' = deps
           /\ memoValue' = IF same THEN memoValue
                           ELSE useGeneratedClasses(memoState, memoBp)
    /\ memoHas' = TRUE
    /\ memoPc' = "rendered"
    /\ UNCHANGED <<memoState, memoBp, nMemo, storeVars, genVars, normVars, codeVars>>

\* an update of the state the component passes
MemoSetState ==
    /\ memoPc = "rendered"
    /\ nMemo < MaxMemoUpdates
    /\ \E i \in DOMAIN GenEdits : memoState' = ApplyEdit(memoState, GenEdits[i])
    /\ nMemo' = nMemo + 1
    /\ memoPc' = "update"
    /\ UNCHANGED <<memoBp, memoHas, memoDeps, memoValue, memoHit,
                   storeVars, genVars, normVars, codeVars>>

\* a change of the breakpoint the component passes
MemoSetBreakpoint ==
    /\ memoPc = "rendered"
    /\ nMemo < MaxMemoUpdates
    /\ \E bp \in GenBreakpoints : memoBp' = bp
    /\ nMemo' = nMemo + 1
    /\ memoPc' = "update"
    /\ UNCHANGED <<memoState, memoHas, memoDeps, memoValue, memoHit,
                   storeVars, genVars, normVars, codeVars>>

MemoNext == MemoRender \/ MemoSetState \/ MemoSetBreakpoint

MemoIdle ==
    /\ memoState = DEFAULT_INSPECTOR_STATE
    /\ memoBp = "base"
    /\ memoHas = FALSE
    /\ memoDeps = << >>
    /\ memoValue = EmptyStr
    /\ memoHit = FALSE
    /\ nMemo = 0
    /\ memoPc = "rendered"

---------------------------------------------------------------------------
(* CodePreviewProvider: the custom code, the saved code and the inspector   *)
(* state of the context. A callback reads the values its closure captured   *)
(* at the last render; the state updates of one call are applied together.  *)

\* the texts drawn for setCustomHtml and setCustomCss
CodeTexts == {EmptyStr, <<"p", " ", "{", " ", "}">>}

\* the state after construction and the first render
CodeInit ==
    /\ autoClear \in BOOLEAN
    /\ customHtml = <<"<", "d", "i", "v", " ", "c", "l", "a", "s", "s", "=", "\"", "c", "u", "s", "t", "o", "m", "-", "b", "o", "x", "\"", ">", "H", "e", "l", "l", "o", " ", "W", "o", "r", "l", "d", "<", "/", "d", "i", "v", ">">>
    /\ customCss = JoinLines(<<<<".", "c", "u", "s", "t", "o", "m", "-", "b", "o", "x", " ", "{">>,
                               <<" ", " ", "p", "a", "d", "d", "i", "n", "g", ":", " ", "1", "6", "p", "x", ";">>,
                               <<" ", " ", "b", "a", "c", "k", "g", "r", "o", "u", "n", "d", ":", " ", "l", "i", "n", "e", "a", "r", "-", "g", "r", "a", "d", "i", "e", "n", "t", "(", "1", "3", "5", "d", "e", "g", ",", " ", "#", "6", "6", "7", "e", "e", "a", " ", "0", "%", ",", " ", "#", "7", "6", "4", "b", "a", "2", " ", "1", "0", "0", "%", ")", ";">>,
                               <<" ", " ", "c", "o", "l", "o", "r", ":", " ", "w", "h", "i", "t", "e", ";">>,
                               <<" ", " ", "b", "o", "r", "d", "e", "r", "-", "r", "a", "d", "i", "u", "s", ":", " ", "8", "p", "x", ";">>,
                               <<" ", " ", "f", "o", "n", "t", "-", "w", "e", "i", "g", "h", "t", ":", " ", "b", "o", "l", "d", ";">>,
                               <<" ", " ", "t", "e", "x", "t", "-", "a", "l", "i", "g", "n", ":", " ", "c", "e", "n", "t", "e", "r", ";">>,
                               <<"}">>>>)
    /\ savedHtml = EmptyStr
    /\ savedCss = EmptyStr
    /\ hasSavedCode = FALSE
    /\ inspectorState = DEFAULT_INSPECTOR_STATE
    /\ renderedCode = [customHtml |-> customHtml, customCss |-> customCss,
                       hasSavedCode |-> FALSE]
    /\ codeOp = [op |-> "init", had |-> FALSE]
    /\ nCodeOps = 0
    /\ codePc = "idle"

\* no provider is mounted
CodeIdle ==
    /\ autoClear = TRUE
    /\ customHtml = EmptyStr
    /\ customCss = EmptyStr
    /\ savedHtml = EmptyStr
    /\ savedCss = EmptyStr
    /\ hasSavedCode = FALSE
    /\ inspectorState = DEFAULT_INSPECTOR_STATE
    /\ renderedCode = [customHtml |-> EmptyStr, customCss |-> EmptyStr,
                       hasSavedCode |-> FALSE]
    /\ codeOp = [op |-> "init", had |-> FALSE]
    /\ nCodeOps = 0
    /\ codePc = "unmounted"

\* a callback of the context value is called: a render is scheduled
CodeHandler(op) ==
    /\ nCodeOps < MaxCodeOps
    /\ nCodeOps' = nCodeOps + 1
    /\ codeOp' = [op |-> op, had |-> hasSavedCode]
    /\ codePc' = "render"
    /\ UNCHANGED <<autoClear, renderedCode, storeVars, genVars, normVars, memoVars>>

SetCustomHtml ==
    /\ \E html \in CodeTexts : customHtml' = html
    /\ CodeHandler("setCustomHtml")
    /\ UNCHANGED <<customCss, savedHtml, savedCss, hasSavedCode, inspectorState>>

SetCustomCss ==
    /\ \E css \in CodeTexts : customCss' = css
    /\ CodeHandler("setCustomCss")
    /\ UNCHANGED <<customHtml, savedHtml, savedCss, hasSavedCode, inspectorState>>

SaveCode ==
    /\ savedHtml' = renderedCode.customHtml
    /\ savedCss' = renderedCode.customCss
    /\ hasSavedCode' = TRUE
    /\ CodeHandler("saveCode")
    /\ UNCHANGED <<customHtml, customCss, inspectorState>>

\* variant: a clearSavedCode that resets the flag and keeps the texts
ClearSavedCodeFlagOnly ==
    /\ autoClear
    /\ hasSavedCode' = FALSE
    /\ CodeHandler("clearSavedCode")
    /\ UNCHANGED <<customHtml, customCss, savedHtml, savedCss, inspectorState>>

\* only the provider with auto-clear has clearSavedCode
ClearSavedCode ==
    /\ autoClear
    /\ savedHtml' = EmptyStr
    /\ savedCss' = EmptyStr
    /\ hasSavedCode' = FALSE
    /\ CodeHandler("clearSavedCode")
    /\ UNCHANGED <<customHtml, customCss, inspectorState>>

\* setInspectorState(state): in the first provider the plain setter
SetInspectorState ==
    /\ \E st \in {DEFAULT_INSPECTOR_STATE, With(DEFAULT_INSPECTOR_STATE, "tag", <<"b", "u", "t", "t", "o", "n">>)} :
          inspectorState' = st
    /\ IF autoClear /\ renderedCode.hasSavedCode
       THEN /\ savedHtml' = EmptyStr
            /\ savedCss' = EmptyStr
            /\ hasSavedCode' = FALSE
       ELSE UNCHANGED <<savedHtml, savedCss, hasSavedCode>>
    /\ CodeHandler("setInspectorState")
    /\ UNCHANGED <<customHtml, customCss>>

\* the provider renders: the callbacks are made anew over the current values
CodeRender ==
    /\ codePc = "render"
    /\ renderedCode' = [customHtml |-> customHtml, customCss |-> customCss,
                        hasSavedCode |-> hasSavedCode]
    /\ codePc' = "idle"
    /\ UNCHANGED <<autoClear, customHtml, customCss, savedHtml, savedCss, hasSavedCode,
                   inspectorState, codeOp, nCodeOps, storeVars, genVars, normVars, memoVars>>

CodeNext ==
    \/ SetCustomHtml
    \/ SetCustomCss
    \/ SaveCode
    \/ ClearSavedCode
    \/ SetInspectorState
    \/ CodeRender



---------------------------------------------------------------------------
(* The store as a state machine: one action per callback returned by        *)
(* useInspectorState, and Render for the render pass React runs after a     *)
(* state update, in which useAllBreakpointClasses is recomputed.            *)

\* useInspectorState(initialState?): the arguments drawn
InitialStates == << EmptyObj, [padding |-> Pad16] >>

\* updateState(key, value): the arguments drawn
StateEdits ==
    << <<"padding", Pad16>>,
       <<"tag", <<"b", "u", "t", "t", "o", "n">>>>,
       <<"tailwindClasses", <<<<"p", "l", "-", "8">>>> >> >>

\* updateNestedState(key, nestedKey, value): the arguments drawn
NestedEdits ==
    << <<"padding", "l", <<"8">>>>,
       <<"padding", "l", <<"1", "6", "p", "x">>>>,
       <<"padding", "t", <<"4">>>>,
       <<"margin", "x", <<"4">>>>,
       <<"border", "width", <<"2">>>>,
       <<"effects", "opacity", 50>>,
       <<"transforms", "rotate", 45>> >>

\* updateDeepNestedState(key, nestedKey, deepKey, value): the arguments drawn
DeepEdits ==
    << <<"border", "radius", "all", 8>>,
       <<"border", "radius", "tl", 4>> >>

\* applyStateChanges(changes): the arguments drawn
Changes ==
    << [padding |-> [l |-> <<"4">>]],
       [border |-> [radius |-> [all |-> 8]]],
       [tag |-> <<"a">>, effects |-> [blur |-> 4]] >>

\* the breakpoint arguments drawn, NoBp for a call that leaves it out
BpArgs == {NoBp, "base", "md", "lg"}

\* lastOp before any callback was called
NoOp == [op |-> "init", bp |-> "base", had |-> FALSE, arg |-> "base", path |-> << >>]

StoreInit ==
    /\ \E i \in DOMAIN InitialStates :
          state = Spread(DEFAULT_INSPECTOR_STATE, InitialStates[i])
    /\ breakpointStates = EmptyBreakpointStates
    /\ currentBreakpoint = "base"
    /\ callbackBreakpoint = "base"
    /\ allClasses = EmptyStr
    /\ lastOp = NoOp
    /\ nOps = 0
    /\ pc = "init"

\* a callback of the last render is called, in the same event as the
\* previous call or in a later one: op on breakpoint bp, with the breakpoint
\* argument arg and the keys path
HandlerAt(op, bp, arg, path) ==
    /\ pc # "init"
    /\ nOps < MaxOps
    /\ nOps' = nOps + 1
    /\ lastOp' = [op |-> op, bp |-> bp,
                  had |-> hasBreakpointOverrides(breakpointStates, bp),
                  arg |-> arg, path |-> path]
    /\ pc' = "render"
    /\ UNCHANGED <<allClasses, callbackBreakpoint, normVars, genVars, memoVars, codeVars>>

Handler(op, bp) == HandlerAt(op, bp, bp, << >>)

SetCurrentBreakpoint ==
    \E bp \in Breakpoints :
        /\ Handler("setCurrentBreakpoint", bp)
        /\ currentBreakpoint' = bp
        /\ UNCHANGED <<state, breakpointStates>>

UpdateState ==
    \E i \in DOMAIN StateEdits, breakpoint \in BpArgs :
        LET key == StateEdits[i][1]
            value == StateEdits[i][2]
            bp == TargetBp(breakpoint, callbackBreakpoint)
        IN  /\ HandlerAt("updateState", bp, breakpoint, <<key>>)
            /\ IF bp = "base"
               THEN /\ state' = updateStateBase(state, key, value)
                    /\ UNCHANGED breakpointStates
               ELSE /\ breakpointStates' = updateStateBp(breakpointStates, bp, key, value)
                    /\ UNCHANGED state
            /\ UNCHANGED currentBreakpoint

\* variant: an updateNestedState without the branch on base, which writes the
\* override record of whatever breakpoint it is addressed to
UpdateNestedStateNoBaseBranch ==
    \E i \in DOMAIN NestedEdits, breakpoint \in BpArgs :
        LET key == NestedEdits[i][1]
            nestedKey == NestedEdits[i][2]
            value == NestedEdits[i][3]
            bp == TargetBp(breakpoint, callbackBreakpoint)
        IN  /\ HandlerAt("updateNestedState", bp, breakpoint, <<key, nestedKey>>)
            /\ breakpointStates' =
                   updateNestedStateBp(breakpointStates, bp, key, nestedKey, value)
            /\ UNCHANGED <<state, currentBreakpoint>>

UpdateNestedState ==
    \E i \in DOMAIN NestedEdits, breakpoint \in BpArgs :
        LET key == NestedEdits[i][1]
            nestedKey == NestedEdits[i][2]
            value == NestedEdits[i][3]
            bp == TargetBp(breakpoint, callbackBreakpoint)
        IN  /\ HandlerAt("updateNestedState", bp, breakpoint, <<key, nestedKey>>)
            /\ IF bp = "base"
               THEN /\ state' = updateNestedStateBase(state, key, nestedKey, value)
                    /\ UNCHANGED breakpointStates
               ELSE /\ breakpointStates' =
                          updateNestedStateBp(breakpointStates, bp, key, nestedKey, value)
                    /\ UNCHANGED state
            /\ UNCHANGED currentBreakpoint

UpdateDeepNestedState ==
    \E i \in DOMAIN DeepEdits, breakpoint \in BpArgs :
        LET key == DeepEdits[i][1]
            nestedKey == DeepEdits[i][2]
            deepKey == DeepEdits[i][3]
            value == DeepEdits[i][4]
            bp == TargetBp(breakpoint, callbackBreakpoint)
        IN  /\ HandlerAt("updateDeepNestedState", bp, breakpoint, <<key, nestedKey, deepKey>>)
            /\ IF bp = "base"
               THEN /\ state' = updateDeepNestedStateBase(state, key, nestedKey, deepKey, value)
                    /\ UNCHANGED breakpointStates
               ELSE /\ breakpointStates' =
                          updateDeepNestedStateBp(breakpointStates, bp, key, nestedKey,
                                                  deepKey, value)
                    /\ UNCHANGED state
            /\ UNCHANGED currentBreakpoint

ApplyStateChanges ==
    \E i \in DOMAIN Changes :
        /\ Handler("applyStateChanges", "base")
        /\ state' = applyStateChanges(state, Changes[i])
        /\ UNCHANGED <<breakpointStates, currentBreakpoint>>

ResetState ==
    /\ Handler("resetState", "base")
    /\ state' = DEFAULT_INSPECTOR_STATE
    /\ breakpointStates' = EmptyBreakpointStates
    /\ UNCHANGED currentBreakpoint

\* variant: a resetTransforms that also empties the override records
ResetTransformsAndOverrides ==
    /\ Handler("resetTransforms", "base")
    /\ state' = resetTransforms(state)
    /\ breakpointStates' = EmptyBreakpointStates
    /\ UNCHANGED currentBreakpoint

ResetTransforms ==
    /\ Handler("resetTransforms", "base")
    /\ state' = resetTransforms(state)
    /\ UNCHANGED <<breakpointStates, currentBreakpoint>>

ResetEffects ==
    /\ Handler("resetEffects", "base")
    /\ state' = resetEffects(state)
    /\ UNCHANGED <<breakpointStates, currentBreakpoint>>

ClearBreakpointOverrides ==
    \E bp \in Breakpoints :
        /\ Handler("clearBreakpointOverrides", bp)
        /\ breakpointStates' = clearBreakpointOverrides(breakpointStates, bp)
        /\ UNCHANGED <<state, currentBreakpoint>>

\* a render pass: the callbacks are made anew with the current breakpoint
\* and the aggregated classes are computed
Render ==
    /\ pc \in {"init", "render"}
    /\ allClasses' = useAllBreakpointClasses(state, breakpointStates)
    /\ callbackBreakpoint' = currentBreakpoint
    /\ pc' = "idle"
    /\ UNCHANGED <<state, breakpointStates, currentBreakpoint, lastOp, nOps,
                   normVars, genVars, memoVars, codeVars>>

Next ==
    \/ SetCurrentBreakpoint
    \/ UpdateState
    \/ UpdateNestedState
    \/ UpdateDeepNestedState
    \/ ApplyStateChanges
    \/ ResetState
    \/ ResetTransforms
    \/ ResetEffects
    \/ ClearBreakpointOverrides
    \/ Render

NormIdle ==
    /\ normIn = JsUndefined
    /\ normOut = EmptyStr
    /\ normOut2 = EmptyStr
    /\ normPc = "start"

Init == StoreInit /\ NormIdle /\ GenIdle /\ MemoIdle /\ CodeIdle

Spec == Init /\ [][Next]_vars

StoreIdle ==
    /\ state = DEFAULT_INSPECTOR_STATE
    /\ breakpointStates = EmptyBreakpointStates
    /\ currentBreakpoint = "base"
    /\ callbackBreakpoint = "base"
    /\ allClasses = EmptyStr
    /\ lastOp = NoOp
    /\ nOps = 0
    /\ pc = "idle"

InitGen == GenInit /\ StoreIdle /\ NormIdle /\ MemoIdle /\ CodeIdle

SpecGen == InitGen /\ [][GenNext]_vars

SpecExport == InitGen /\ [][ExportNext]_vars

InitNorm == NormInit /\ StoreIdle /\ GenIdle /\ MemoIdle /\ CodeIdle

SpecNorm == InitNorm /\ [][NormNext]_vars

InitMemo == MemoInit /\ StoreIdle /\ GenIdle /\ NormIdle /\ CodeIdle

SpecMemo == InitMemo /\ [][MemoNext]_vars

InitCode == CodeInit /\ StoreIdle /\ GenIdle /\ NormIdle /\ MemoIdle

SpecCode == InitCode /\ [][CodeNext]_vars

---------------------------------------------------------------------------
(* Vocabulary of the properties *)

NoDuplicates(seq) == \A i, j \in DOMAIN seq : seq[i] = seq[j] => i = j

\* the elements of seq that no earlier element equals, in the order of seq
FirstOccurrences(seq) ==
    LET Keep(i) == \A j \in 1..(i - 1) : seq[j] # seq[i]
        F[i \in 0..Len(seq)] ==
            IF i = 0 THEN << >>
            ELSE IF Keep(i) THEN Append(F[i - 1], seq[i]) ELSE F[i - 1]
    IN  F[Len(seq)]

\* the elements of seq that satisfy Test
Select(seq, Test(_)) == SelectSeq(seq, Test)

AllDigits(s) == s # EmptyStr /\ \A i \in DOMAIN s : s[i] \in Digits

\* a numeric literal: integer or decimal, optionally negative; a decimal
\* may leave out the digits on one side of its point (.5, 4.)
IsNumericLiteral(s) ==
    LET u == IF s # EmptyStr /\ Head(s) = "-" THEN Tail(s) ELSE s
        DigitsOrNone(t) == \A i \in DOMAIN t : t[i] \in Digits
    IN  \/ AllDigits(u)
        \/ \E i \in DOMAIN u :
              /\ u[i] = "."
              /\ Len(u) >= 2
              /\ DigitsOrNone(SubSeq(u, 1, i - 1))
              /\ DigitsOrNone(SubSeq(u, i + 1, Len(u)))

\* the longest prefix of s that is a numeric literal, or the empty string
LeadingNumericLiteral(s) ==
    LET lens == {k \in 1..Len(s) : IsNumericLiteral(SubSeq(s, 1, k))}
    IN  IF lens = {} THEN EmptyStr
        ELSE SubSeq(s, 1, CHOOSE k \in lens : \A m \in lens : m <= k)

\* a numeric literal followed by a unit made of letters
IsNumericWithUnit(s) ==
    LET lit == LeadingNumericLiteral(s)
        unit == SubSeq(s, Len(lit) + 1, Len(s))
    IN  /\ lit # EmptyStr
        /\ unit # EmptyStr
        /\ \A i \in DOMAIN unit : unit[i] \in Letters

\* a stored value that is a number, with or without a px suffix
IsNumberOrPx(s) ==
    \/ IsNumericLiteral(s)
    \/ EndsWith(s, <<"p", "x">>) /\ IsNumericLiteral(SubSeq(s, 1, Len(s) - 2))

\* the number of such a stored value, as written
NumberOf(s) == IF EndsWith(s, <<"p", "x">>) THEN SubSeq(s, 1, Len(s) - 2) ELSE s

\* whether a numeric literal denotes a number other than zero
IsNonZero(lit) == \E i \in DOMAIN lit : lit[i] \in Digits \ {"0"}

\* a string without alphabetic characters
NoLetters(s) == \A i \in DOMAIN s : s[i] \notin Letters

---------------------------------------------------------------------------
(* The state store *)

\* what the claim of selective merge asks of the effective state of bp:
\* leaf by leaf, the override where it has the leaf, else the base
LeafwiseMerge(eff, base, ov) ==
    IF ov = EmptyObj THEN eff = base ELSE
    eff = [k \in DOMAIN base |->
              IF k \notin GroupKeys
              THEN IF k \in DOMAIN ov THEN ov[k] ELSE base[k]
              ELSE [f \in DOMAIN base[k] |->
                       IF k = "border" /\ f = "radius"
                       THEN [c \in DOMAIN base[k][f] |->
                                IF /\ k \in DOMAIN ov
                                   /\ f \in DOMAIN ov[k]
                                   /\ c \in DOMAIN ov[k][f]
                                THEN ov[k][f][c]
                                ELSE base[k][f][c]]
                       ELSE IF k \in DOMAIN ov /\ f \in DOMAIN ov[k]
                            THEN ov[k][f]
                            ELSE base[k][f]]]

\* C2: at every render of the store and for every breakpoint, the
\* effective state takes each leaf field from the override of the breakpoint
\* when the override has it and from the base state otherwise, one level
\* into each group and two levels into border.radius
C2_SelectiveMerge ==
    pc = "idle" =>
        \A bp \in Breakpoints :
            LeafwiseMerge(GetEffectiveState(state, breakpointStates, bp),
                          state, breakpointStates[bp])

\* an override holding only padding.l = '8' over a base with another
\* padding: the other padding sides resolve from the base
C2_Witness ==
    /\ breakpointStates["lg"] = [padding |-> [l |-> <<"8">>]]
    /\ state["padding"] = Pad16
    /\ GetEffectiveState(state, breakpointStates, "lg")["padding"]
          = [l |-> <<"8">>, t |-> <<"1", "6">>, r |-> <<"1", "6">>, b |-> <<"1", "6">>]

\* C3: after clearBreakpointOverrides(bp) for a breakpoint other than base,
\* the effective state of bp equals the base state
C3_ClearRestoresBase ==
    (lastOp.op = "clearBreakpointOverrides" /\ lastOp.bp # "base")
        => GetEffectiveState(state, breakpointStates, lastOp.bp) = state

\* clearBreakpointOverrides was called on a breakpoint that had overrides,
\* over a base state that is not the default one
C3_Witness ==
    /\ lastOp.op = "clearBreakpointOverrides"
    /\ lastOp.bp = "lg"
    /\ lastOp.had
    /\ state # DEFAULT_INSPECTOR_STATE
    /\ GetEffectiveState(state, breakpointStates, "lg") = state

---------------------------------------------------------------------------
(* The multi-breakpoint aggregator *)

RECURSIVE GeneratorTokens(_, _, _)
GeneratorTokens(st, bpStates, bps) ==
    IF bps = << >> THEN << >>
    ELSE LET bp == Head(bps)
             own == IF bp = "base" \/ hasBreakpointOverrides(bpStates, bp)
                    THEN Tokens(useGeneratedClasses(GetEffectiveState(st, bpStates, bp), bp))
                    ELSE << >>
         IN  own \o GeneratorTokens(st, bpStates, Tail(bps))

\* C5: the aggregated string is the de-duplicated concatenation of the
\* outputs of useGeneratedClasses for the effective state of each breakpoint
\* the aggregator processes
C5_AggregatorRunsGenerator ==
    pc = "idle" =>
        Tokens(allClasses)
            = FirstOccurrences(GeneratorTokens(state, breakpointStates, BREAKPOINT_KEYS))

---------------------------------------------------------------------------
(* The value normalizer *)

\* C6: normalizeNumericValue is idempotent on numeric-with-unit strings
C6_NormalizeIdempotent ==
    (normPc = "twice" /\ normIn.kind = "string" /\ IsNumericWithUnit(normIn.val))
        => normOut2 = normOut

\* '-4.5rem' was normalized twice
C6_Witness ==
    /\ normPc = "twice"
    /\ normIn = JsStr(<<"-", "4", ".", "5", "r", "e", "m">>)
    /\ normOut = <<"-", "4", ".", "5">>
    /\ normOut2 = <<"-", "4", ".", "5">>

\* C7: for a number or a string beginning with a numeric literal the result
\* is exactly that literal, without alphabetic characters; for an empty or
\* absent argument it is ''
C7_LeadingLiteral ==
    normPc # "start" =>
        CASE normIn.kind = "number" ->
                normOut = NumToStr(normIn.val)
          [] normIn.kind = "string" /\ normIn.val = EmptyStr ->
                normOut = EmptyStr
          [] normIn.kind = "string" /\ LeadingNumericLiteral(normIn.val) # EmptyStr ->
                normOut = LeadingNumericLiteral(normIn.val) /\ NoLetters(normOut)
          [] normIn.kind \in {"null", "undefined"} ->
                normOut = EmptyStr
          [] OTHER -> TRUE

---------------------------------------------------------------------------
(* The class generator *)

\* the tokens of the generated string
GenAllTokens == Tokens(genClasses)

\* those the generator made itself: all but the user-supplied tail
GenTokens ==
    SubSeq(GenAllTokens, 1,
           Len(GenAllTokens) - Len(FilterBoolean(genState["tailwindClasses"])))

InSeq(x, seq) == \E i \in DOMAIN seq : seq[i] = x

\* the tokens of seq that start with p
Starting(seq, p) == LET Test(t) == StartsWith(t, p) IN SelectSeq(seq, Test)

\* C1: a padding side stored as a non-zero number, with or without a px
\* suffix, gives exactly the token <prefix>p<side>-[<n>px], with one px; four
\* sides of 16 at base give pl-[16px] pt-[16px] pr-[16px] pb-[16px] in that
\* order
C1_PaddingBracketPx ==
    genPc = "classes" =>
        LET tokens == GenTokens IN
            /\ \A side \in {"l", "t", "r", "b"} :
                  LET raw == genState["padding"][side]
                      name == <<"p", side>>
                      expected == Prefix(genBp) \o name \o <<"-", "[">> \o NumberOf(raw) \o <<"p", "x", "]">>
                  IN  (IsNumberOrPx(raw) /\ IsNonZero(NumberOf(raw))) =>
                          /\ Starting(tokens, Prefix(genBp) \o name \o <<"-">>) = <<expected>>
                          /\ ~Contains(expected, <<"p", "x", "p", "x">>)
            /\ \A i \in DOMAIN tokens : ~Contains(tokens[i], <<"p", "x", "p", "x">>)
            /\ (genState["padding"] = Pad16 /\ genBp = "base") =>
                  /\ Len(tokens) >= 4
                  /\ SubSeq(tokens, 1, 4)
                        = <<<<"p", "l", "-", "[", "1", "6", "p", "x", "]">>, <<"p", "t", "-", "[", "1", "6", "p", "x", "]">>, <<"p", "r", "-", "[", "1", "6", "p", "x", "]">>, <<"p", "b", "-", "[", "1", "6", "p", "x", "]">>>>

\* four sides stored as '16px' at breakpoint md
C1_Witness ==
    /\ genPc = "classes"
    /\ genState["padding"] = Pad16px
    /\ genBp = "md"
    /\ genClasses = <<"m", "d", ":", "p", "l", "-", "[", "1", "6", "p", "x", "]", " ", "m", "d", ":", "p", "t", "-", "[", "1", "6", "p", "x", "]", " ", "m", "d", ":", "p", "r", "-", "[", "1", "6", "p", "x", "]", " ", "m", "d", ":", "p", "b", "-", "[", "1", "6", "p", "x", "]">>

\* C8: a border width stored as a non-zero number, with or without a px
\* suffix, gives exactly <prefix>border-[<n>px], never border-<n>px and never
\* a token with pxpx
C8_BorderWidthBracket ==
    genPc = "classes" =>
        LET tokens == GenTokens IN
            LET raw == genState["border"]["width"]
                n == NumberOf(raw)
                expected == Prefix(genBp) \o <<"b", "o", "r", "d", "e", "r", "-", "[">> \o n \o <<"p", "x", "]">>
            IN  (IsNumberOrPx(raw) /\ IsNonZero(n)) =>
                    /\ Starting(tokens, Prefix(genBp) \o <<"b", "o", "r", "d", "e", "r", "-", "[">>) = <<expected>>
                    /\ ~InSeq(Prefix(genBp) \o <<"b", "o", "r", "d", "e", "r", "-">> \o n \o <<"p", "x">>, tokens)
                    /\ \A i \in DOMAIN tokens :
                          StartsWith(tokens[i], Prefix(genBp) \o <<"b", "o", "r", "d", "e", "r", "-">>)
                              => ~Contains(tokens[i], <<"p", "x", "p", "x">>)

\* a border width stored as '2px', with a border style
C8_Witness ==
    /\ genPc = "classes"
    /\ genState["border"]["width"] = <<"2", "p", "x">>
    /\ genState["border"]["style"] = <<"d", "a", "s", "h", "e", "d">>
    /\ genClasses = <<"b", "o", "r", "d", "e", "r", "-", "[", "2", "p", "x", "]", " ", "b", "o", "r", "d", "e", "r", "-", "d", "a", "s", "h", "e", "d">>

\* the spacing fields of the generator and the property of each
SpacingFields ==
    << <<"padding", "l", <<"p", "l">>>>, <<"padding", "t", <<"p", "t">>>>,
       <<"padding", "r", <<"p", "r">>>>, <<"padding", "b", <<"p", "b">>>>,
       <<"margin", "x", <<"m", "x">>>>, <<"margin", "y", <<"m", "y">>>> >>

\* C9 as claimed: a spacing value of the token scale is emitted in the
\* short form <prefix><prop>-<value>, and bracket notation is used only for
\* values outside the scale
C9_TokenFormPreferred ==
    genPc = "classes" =>
        LET tokens == GenTokens IN
            \A i \in DOMAIN SpacingFields :
                LET f == SpacingFields[i]
                    v == normalizeNumericValue(JsStr(genState[f[1]][f[2]]))
                    short == Prefix(genBp) \o f[3] \o <<"-">> \o v
                    bracket == Prefix(genBp) \o f[3] \o <<"-", "[">> \o v \o <<"p", "x", "]">>
                IN  (Truthy(v) /\ v # <<"0">>) =>
                        IF isTailwindToken(<<"p", "-">>, v)
                        THEN InSeq(short, tokens) /\ ~InSeq(bracket, tokens)
                        ELSE InSeq(bracket, tokens)

\* C9 as amended: a spacing field whose normalized value is neither empty
\* nor '0' is emitted in bracket notation <prefix><prop>-[<value>px], also
\* when the value belongs to the token scale; the short form is never emitted
C9_BracketAlways ==
    genPc = "classes" =>
        LET tokens == GenTokens IN
            \A i \in DOMAIN SpacingFields :
                LET f == SpacingFields[i]
                    v == normalizeNumericValue(JsStr(genState[f[1]][f[2]]))
                    short == Prefix(genBp) \o f[3] \o <<"-">> \o v
                    bracket == Prefix(genBp) \o f[3] \o <<"-", "[">> \o v \o <<"p", "x", "]">>
                IN  (Truthy(v) /\ v # <<"0">>) =>
                        /\ Starting(tokens, Prefix(genBp) \o f[3] \o <<"-">>) = <<bracket>>
                        /\ ~InSeq(short, tokens)

\* padding-left 4 and margin-x 4, both of the token scale, at breakpoint sm
C9_Witness ==
    /\ genPc = "classes"
    /\ genBp = "sm"
    /\ genState["padding"]["l"] = <<"4">>
    /\ genState["margin"]["x"] = <<"4">>
    /\ genClasses = <<"s", "m", ":", "p", "l", "-", "[", "4", "p", "x", "]", " ", "s", "m", ":", "m", "x", "-", "[", "4", "p", "x", "]">>

\* the properties the inline CSS text of the state sets by itself
InlineProps == InlineCSSStyles(EmptyStyles, genState["inlineCSS"])

\* styles has the property, and not because the inline CSS text names it
Generates(styles, inline, key) == HasStyle(styles, key) /\ ~HasStyle(inline, key)

\* the value of a property of styles has the substring, and not because the
\* inline CSS text names the property
GeneratesWith(styles, inline, key, sub) ==
    Generates(styles, inline, key) /\ Contains(StyleOf(styles, key), sub)

PositionTypes == {<<"s", "t", "a", "t", "i", "c">>, <<"r", "e", "l", "a", "t", "i", "v", "e">>, <<"a", "b", "s", "o", "l", "u", "t", "e">>, <<"f", "i", "x", "e", "d">>, <<"s", "t", "i", "c", "k", "y">>}

ZeroableFields ==
    << <<"padding", "l", <<"p", "l", "-">>>>, <<"padding", "t", <<"p", "t", "-">>>>,
       <<"padding", "r", <<"p", "r", "-">>>>, <<"padding", "b", <<"p", "b", "-">>>>,
       <<"margin", "x", <<"m", "x", "-">>>>, <<"margin", "y", <<"m", "y", "-">>>>,
       <<"position", "l", <<"l", "e", "f", "t", "-">>>>, <<"position", "t", <<"t", "o", "p", "-">>>>,
       <<"position", "r", <<"r", "i", "g", "h", "t", "-">>>>, <<"position", "b", <<"b", "o", "t", "t", "o", "m", "-">>>>,
       <<"position", "zIndex", <<"z", "-">>>>, <<"border", "width", <<"b", "o", "r", "d", "e", "r", "-", "[">>>> >>

\* C11: a padding side, margin, position offset, z-index or border width
\* whose normalized value is '0' gives no class token
C11_ZeroEmitsNothing ==
    genPc = "classes" =>
        LET tokens == GenTokens IN
            \A i \in DOMAIN ZeroableFields :
                LET f == ZeroableFields[i]
                IN  normalizeNumericValue(JsStr(genState[f[1]][f[2]])) = <<"0">>
                        => Starting(tokens, Prefix(genBp) \o f[3]) = << >>

---------------------------------------------------------------------------
(* The keyed updates of the store *)

\* g is f with at most the entry of k written
SameExcept(f, g, k) ==
    /\ DOMAIN g \subseteq DOMAIN f \cup {k}
    /\ \A x \in DOMAIN f \ {k} : x \in DOMAIN g /\ g[x] = f[x]

\* the step is a call of the callback op
Calls(op) == nOps' = nOps + 1 /\ lastOp'.op = op

\* C12: updateNestedState(key, nestedKey, v) on a breakpoint other than base
\* writes breakpointStates[bp][key][nestedKey] and leaves the base state,
\* the other breakpoints, the other groups of bp and the other keys of the
\* group as they were; on base it writes state[key][nestedKey] and leaves
\* breakpointStates as it was.  The same holds one level deeper for
\* updateDeepNestedState.
C12_KeyedUpdateFrame ==
    [][ /\ Calls("updateNestedState") =>
            LET bp == lastOp'.bp
                key == lastOp'.path[1]
                nestedKey == lastOp'.path[2]
            IN  IF bp = "base"
                THEN /\ breakpointStates' = breakpointStates
                     /\ SameExcept(state, state', key)
                     /\ SameExcept(state[key], state'[key], nestedKey)
                ELSE /\ state' = state
                     /\ SameExcept(breakpointStates, breakpointStates', bp)
                     /\ SameExcept(breakpointStates[bp], breakpointStates'[bp], key)
                     /\ SameExcept(GroupOr(breakpointStates[bp], key),
                                   breakpointStates'[bp][key], nestedKey)
        /\ Calls("updateDeepNestedState") =>
            LET bp == lastOp'.bp
                key == lastOp'.path[1]
                nestedKey == lastOp'.path[2]
                deepKey == lastOp'.path[3]
            IN  IF bp = "base"
                THEN /\ breakpointStates' = breakpointStates
                     /\ SameExcept(state, state', key)
                     /\ SameExcept(state[key], state'[key], nestedKey)
                     /\ SameExcept(state[key][nestedKey], state'[key][nestedKey], deepKey)
                ELSE LET group == GroupOr(breakpointStates[bp], key)
                         nested == IF nestedKey \in DOMAIN group
                                   THEN group[nestedKey] ELSE EmptyObj
                     IN  /\ state' = state
                         /\ SameExcept(breakpointStates, breakpointStates', bp)
                         /\ SameExcept(breakpointStates[bp], breakpointStates'[bp], key)
                         /\ SameExcept(group, breakpointStates'[bp][key], nestedKey)
                         /\ SameExcept(nested, breakpointStates'[bp][key][nestedKey],
                                       deepKey)
      ]_vars

\* padding.t was written on lg after padding.l: both are in the override,
\* and nothing else is
C12_Witness ==
    /\ lastOp.op = "updateNestedState"
    /\ lastOp.bp = "lg"
    /\ lastOp.path = <<"padding", "t">>
    /\ breakpointStates["lg"] = [padding |-> [l |-> <<"8">>, t |-> <<"4">>]]
    /\ \A bp \in Breakpoints \ {"lg"} : breakpointStates[bp] = EmptyObj

\* the step is a field edit called without a breakpoint argument
EditsCurrent ==
    /\ nOps' = nOps + 1
    /\ lastOp'.op \in {"updateState", "updateNestedState", "updateDeepNestedState"}
    /\ lastOp'.arg = NoBp

\* C13: a field edit without a breakpoint argument lands in the bucket of
\* the breakpoint the most recent setCurrentBreakpoint selected: in the base
\* state when that is base, and otherwise in its override and nowhere else
C13_EditLandsInCurrent ==
    [][ EditsCurrent =>
            IF currentBreakpoint = "base"
            THEN breakpointStates' = breakpointStates
            ELSE /\ state' = state
                 /\ SameExcept(breakpointStates, breakpointStates', currentBreakpoint)
      ]_vars

\* C14: the override map always has exactly the keys base, sm, md, lg, xl
\* and 2xl; all six are empty before the first callback, and
\* clearBreakpointOverrides leaves the key of the breakpoint in the map,
\* with the empty record
C14_SixBreakpointKeys ==
    /\ DOMAIN breakpointStates = Breakpoints
    /\ lastOp.op = "init" => \A bp \in Breakpoints : breakpointStates[bp] = EmptyObj
    /\ (lastOp.op = "clearBreakpointOverrides" /\ lastOp.bp # "base")
          => /\ lastOp.bp \in DOMAIN breakpointStates
             /\ breakpointStates[lastOp.bp] = EmptyObj

\* clearBreakpointOverrides was called on lg, which had overrides, and the
\* store has rendered since: the key is still there
C14_Witness ==
    /\ lastOp.op = "clearBreakpointOverrides"
    /\ lastOp.bp = "lg"
    /\ lastOp.had
    /\ pc = "idle"
    /\ "lg" \in DOMAIN breakpointStates
    /\ breakpointStates["lg"] = EmptyObj

---------------------------------------------------------------------------
(* The order of the aggregator *)

\* the place in BREAKPOINT_KEYS of the breakpoint whose prefix the token
\* has, 1 for a token without a breakpoint prefix
BreakpointIndex(token) ==
    LET prefixed == {i \in 2..Len(BREAKPOINT_KEYS) :
                        StartsWith(token, Prefix(BREAKPOINT_KEYS[i]))}
    IN  IF prefixed = {} THEN 1 ELSE CHOOSE i \in prefixed : TRUE

\* C15: in the string of useAllBreakpointClasses the tokens of base come
\* first and those of sm, md, lg, xl, 2xl follow in that order; base is
\* processed without having overrides; a breakpoint other than base with an
\* empty override contributes no token, and one with overrides is processed
C15_BreakpointOrder ==
    pc = "idle" =>
        LET tokens == Tokens(allClasses)
            Has(bp) == \E i \in DOMAIN tokens :
                          BREAKPOINT_KEYS[BreakpointIndex(tokens[i])] = bp
            Emits(bp) ==
                LET l == GetEffectiveState(state, breakpointStates, bp)["padding"]["l"]
                IN  Truthy(l) /\ l # <<"0">>
        IN  /\ \A i, j \in DOMAIN tokens :
                  i < j => BreakpointIndex(tokens[i]) <= BreakpointIndex(tokens[j])
            /\ Has("base") <=> Emits("base")
            /\ \A bp \in Breakpoints \ {"base"} :
                  Has(bp) <=> (DOMAIN breakpointStates[bp] # {} /\ Emits(bp))

\* lg was edited before md, and the base state has a padding: the string
\* has the token of base, then that of md, then that of lg, and none of
\* the breakpoints without overrides
C15_Witness ==
    /\ pc = "idle"
    /\ lastOp.op = "updateNestedState"
    /\ lastOp.bp = "md"
    /\ hasBreakpointOverrides(breakpointStates, "lg")
    /\ ~hasBreakpointOverrides(breakpointStates, "base")
    /\ allClasses = <<"p", "l", "-", "1", "6", " ", "m", "d", ":", "p", "l", "-", "8", " ", "l", "g", ":", "p", "l", "-", "1", "6", "p", "x">>

\* C16: at every render of the component, over any sequence of updates of
\* state and breakpoint, the string the memoized useGeneratedClasses returns
\* is the string a computation from scratch gives for the state and the
\* breakpoint of that render: the stored value is never stale.
C16_MemoNeverStale ==
    memoPc = "rendered" /\ memoHas
        => memoValue = useGeneratedClasses(memoState, memoBp)

\* a render after two updates reused the stored, non-empty value although the
\* state object it was given had changed
C16_Witness ==
    /\ memoPc = "rendered"
    /\ memoHit
    /\ nMemo = 2
    /\ memoValue = <<"p", "l", "-", "[", "1", "6", "p", "x", "]", " ", "f", "l", "e", "x", " ", "f", "l", "e", "x">>
    /\ memoState["inlineCSS"] # EmptyStr

---------------------------------------------------------------------------
(* The breakpoint prefix of the generator *)

\* the prefixes the generator gives to the tokens of a non-base breakpoint
BreakpointPrefixes == {Prefix(bp) : bp \in Breakpoints \ {"base"}}

HasBreakpointPrefix(token) == \E p \in BreakpointPrefixes : StartsWith(token, p)

\* C17 as claimed: for a non-base breakpoint every token of the string
\* useGeneratedClasses returns starts with '<bp>:'; for base the generator
\* gives no token a breakpoint prefix
C17_EveryTokenPrefixed ==
    genPc = "classes" =>
        IF genBp # "base"
        THEN \A i \in DOMAIN GenAllTokens : StartsWith(GenAllTokens[i], Prefix(genBp))
        ELSE \A i \in DOMAIN GenTokens : ~HasBreakpointPrefix(GenTokens[i])

\* C17 as amended: for a non-base breakpoint every token the generator makes
\* from a field of the state starts with '<bp>:', and the user-supplied
\* classes that follow them are the stored ones, without the prefix; for base
\* no token made from a field has a breakpoint prefix
C17_FieldTokensPrefixed ==
    genPc = "classes" =>
        LET all == GenAllTokens
            tokens == GenTokens
            user == FilterBoolean(genState["tailwindClasses"])
        IN  /\ \A i \in DOMAIN tokens :
                  IF genBp # "base"
                  THEN StartsWith(tokens[i], Prefix(genBp))
                  ELSE ~HasBreakpointPrefix(tokens[i])
            /\ SubSeq(all, Len(tokens) + 1, Len(all)) = user

\* at breakpoint sm, a padding token with the prefix and a user class without
C17_Witness ==
    /\ genPc = "classes"
    /\ genBp = "sm"
    /\ genState["tailwindClasses"] = <<<<"f", "l", "e", "x">>>>
    /\ genClasses = <<"s", "m", ":", "p", "l", "-", "[", "4", "p", "x", "]", " ", "f", "l", "e", "x">>

---------------------------------------------------------------------------
(* The user-supplied classes *)

\* the number of elements of seq equal to x
Count(seq, x) == Cardinality({i \in DOMAIN seq : seq[i] = x})

\* C18: the user-supplied tailwindClasses are the last tokens of the string
\* useGeneratedClasses returns, unmodified and in their stored order, after
\* every token made from a field; no duplicate is removed: a class occurs as
\* many times as the fields and the user list produced it
C18_UserClassesVerbatimLast ==
    genPc = "classes" =>
        LET all == GenAllTokens
            user == FilterBoolean(genState["tailwindClasses"])
            fields == Tokens(useGeneratedClasses(
                          [genState EXCEPT !["tailwindClasses"] = << >>], genBp))
        IN  /\ all = fields \o user
            /\ \A i \in DOMAIN user :
                  Count(all, user[i]) = Count(fields, user[i]) + Count(user, user[i])

\* the user list repeats a class and names one the padding field makes too
C18_Witness ==
    /\ genPc = "classes"
    /\ genBp = "base"
    /\ genState["tailwindClasses"] = <<<<"p", "l", "-", "[", "1", "6", "p", "x", "]">>, <<"f", "l", "e", "x">>, <<"f", "l", "e", "x">>>>
    /\ genClasses = <<"p", "l", "-", "[", "1", "6", "p", "x", "]", " ", "p", "l", "-", "[", "1", "6", "p", "x", "]", " ", "f", "l", "e", "x", " ", "f", "l", "e", "x">>

---------------------------------------------------------------------------
(* The order of the generated tokens *)

\* the shapes of the tokens the generator makes from the fields, without the
\* breakpoint prefix: <<group, start of the token, number of fields that
\* write a token of this start>>; a token has the first shape that fits it.
\* Groups: 1 padding, 2 margin, 3 position, 4 size, 5 typography,
\* 6 transforms, 7 effects, 8 border
FieldShapes ==
    << <<1, <<"p", "l", "-">>, 1>>, <<1, <<"p", "t", "-">>, 1>>, <<1, <<"p", "r", "-">>, 1>>, <<1, <<"p", "b", "-">>, 1>>,
       <<2, <<"m", "x", "-">>, 1>>, <<2, <<"m", "y", "-">>, 1>>,
       <<3, <<"r", "e", "l", "a", "t", "i", "v", "e">>, 1>>, <<3, <<"a", "b", "s", "o", "l", "u", "t", "e">>, 1>>, <<3, <<"f", "i", "x", "e", "d">>, 1>>,
       <<3, <<"s", "t", "i", "c", "k", "y">>, 1>>, <<3, <<"z", "-", "[">>, 1>>, <<3, <<"l", "e", "f", "t", "-", "[">>, 1>>,
       <<3, <<"t", "o", "p", "-", "[">>, 1>>, <<3, <<"r", "i", "g", "h", "t", "-", "[">>, 1>>, <<3, <<"b", "o", "t", "t", "o", "m", "-", "[">>, 1>>,
       <<4, <<"w", "-", "[">>, 1>>, <<4, <<"h", "-", "[">>, 1>>, <<4, <<"m", "a", "x", "-", "w", "-", "[">>, 1>>,
       <<4, <<"m", "a", "x", "-", "h", "-", "[">>, 1>>, <<4, <<"m", "i", "n", "-", "w", "-", "[">>, 1>>, <<4, <<"m", "i", "n", "-", "h", "-", "[">>, 1>>,
       <<5, <<"f", "o", "n", "t", "-">>, 2>>, <<5, <<"t", "e", "x", "t", "-", "[">>, 1>>, <<5, <<"t", "r", "a", "c", "k", "i", "n", "g", "-">>, 1>>,
       <<5, <<"l", "e", "a", "d", "i", "n", "g", "-", "[">>, 1>>, <<5, <<"t", "e", "x", "t", "-">>, 1>>,
       <<6, <<"r", "o", "t", "a", "t", "e", "-", "[">>, 1>>, <<6, <<"s", "c", "a", "l", "e", "-", "[">>, 1>>, <<6, <<"t", "r", "a", "n", "s", "l", "a", "t", "e", "-", "x", "-", "[">>, 1>>,
       <<6, <<"t", "r", "a", "n", "s", "l", "a", "t", "e", "-", "y", "-", "[">>, 1>>, <<6, <<"s", "k", "e", "w", "-", "x", "-", "[">>, 1>>, <<6, <<"s", "k", "e", "w", "-", "y", "-", "[">>, 1>>,
       <<7, <<"o", "p", "a", "c", "i", "t", "y", "-", "[">>, 1>>, <<7, <<"b", "l", "u", "r", "-", "[">>, 1>>, <<7, <<"b", "a", "c", "k", "d", "r", "o", "p", "-", "b", "l", "u", "r", "-", "[">>, 1>>,
       <<7, <<"h", "u", "e", "-", "r", "o", "t", "a", "t", "e", "-", "[">>, 1>>, <<7, <<"s", "a", "t", "u", "r", "a", "t", "e", "-", "[">>, 1>>, <<7, <<"b", "r", "i", "g", "h", "t", "n", "e", "s", "s", "-", "[">>, 1>>,
       <<7, <<"c", "o", "n", "t", "r", "a", "s", "t", "-", "[">>, 1>>, <<7, <<"g", "r", "a", "y", "s", "c", "a", "l", "e", "-", "[">>, 1>>, <<7, <<"i", "n", "v", "e", "r", "t", "-", "[">>, 1>>,
       <<7, <<"s", "e", "p", "i", "a", "-", "[">>, 1>>, <<7, <<"s", "h", "a", "d", "o", "w", "-">>, 1>>,
       <<8, <<"r", "o", "u", "n", "d", "e", "d", "-", "[">>, 1>>, <<8, <<"b", "o", "r", "d", "e", "r", "-", "[">>, 1>>, <<8, <<"b", "o", "r", "d", "e", "r", "-">>, 1>> >>

\* the token without the prefix of the breakpoint
Unprefixed(token, prefix) ==
    IF StartsWith(token, prefix)
    THEN SubSeq(token, Len(prefix) + 1, Len(token))
    ELSE token

\* the number of the first shape from k on that fits the token, 0 when none does
RECURSIVE FirstShape(_, _)
FirstShape(token, k) ==
    IF k > Len(FieldShapes) THEN 0
    ELSE IF StartsWith(token, FieldShapes[k][2]) THEN k
    ELSE FirstShape(token, k + 1)

\* the shape of each token of a sequence
RECURSIVE ShapesOf(_, _)
ShapesOf(tokens, prefix) ==
    IF tokens = << >> THEN << >>
    ELSE <<FirstShape(Unprefixed(Head(tokens), prefix), 1)>>
         \o ShapesOf(Tail(tokens), prefix)

\* C19: the tokens made from the fields come in the order of their groups,
\* padding, margin, position, size, typography, transforms, effects, border,
\* and the user-supplied classes follow them, whatever fields are set; no
\* field gives more than one token
C19_FixedGroupOrder ==
    genPc = "classes" =>
        LET all == GenAllTokens
            tokens == GenTokens
            shapes == ShapesOf(tokens, Prefix(genBp))
        IN  /\ \A i \in DOMAIN shapes : shapes[i] # 0
            /\ \A i, j \in DOMAIN shapes :
                  i < j => FieldShapes[shapes[i]][1] <= FieldShapes[shapes[j]][1]
            /\ \A i \in DOMAIN shapes :
                  Cardinality({j \in DOMAIN shapes : shapes[j] = shapes[i]})
                      <= FieldShapes[shapes[i]][3]
            /\ SubSeq(all, Len(tokens) + 1, Len(all))
                  = FilterBoolean(genState["tailwindClasses"])

\* four padding tokens, then the margin token
C19_Witness ==
    /\ genPc = "classes"
    /\ genBp = "base"
    /\ genState["margin"]["x"] = <<"4">>
    /\ genClasses = <<"p", "l", "-", "[", "1", "6", "p", "x", "]", " ", "p", "t", "-", "[", "1", "6", "p", "x", "]", " ", "p", "r", "-", "[", "1", "6", "p", "x", "]", " ", "p", "b", "-", "[", "1", "6", "p", "x", "]", " ", "m", "x", "-", "[", "4", "p", "x", "]">>

---------------------------------------------------------------------------
(* The size fields *)

\* the size fields of the generator and the property of each
SizeFields ==
    << <<"width", <<"w">>>>, <<"height", <<"h">>>>,
       <<"maxWidth", <<"m", "a", "x", "-", "w">>>>, <<"maxHeight", <<"m", "a", "x", "-", "h">>>>,
       <<"minWidth", <<"m", "i", "n", "-", "w">>>>, <<"minHeight", <<"m", "i", "n", "-", "h">>>> >>

\* C20: a size field with a stored value gives the one token
\* <prefix><prop>-[<value><unit>]: a numeric value without unit gets px
\* (width '320' gives w-[320px]); a value that carries a unit other than px,
\* or a keyword ('50%', '10rem', 'auto'), is emitted as stored, without px
C20_SizeUnitRule ==
    genPc = "classes" =>
        LET tokens == GenTokens IN
            \A i \in DOMAIN SizeFields :
                LET f == SizeFields[i]
                    raw == genState["size"][f[1]]
                    start == Prefix(genBp) \o f[2] \o <<"-", "[">>
                IN  /\ IsNumericLiteral(raw)
                        => Starting(tokens, start) = <<start \o raw \o <<"p", "x", "]">>>>
                    /\ (Truthy(raw) /\ ~IsNumberOrPx(raw))
                        => Starting(tokens, start) = <<start \o raw \o <<"]">>>>

---------------------------------------------------------------------------
(* The CSS export *)

\* the lines of the exported CSS text
CssTextLines == Split(genCss, "\n")

\* C21: useExportCSS writes the padding, margin and border width values as
\* the normalized number followed by exactly one px: for a stored value that
\* is a number with or without a px suffix the declaration carries <n>px, and
\* the exported text never contains pxpx
C21_ExportOnePx ==
    genPc = "css" =>
        LET lines == CssTextLines
            OnePx(raw) == NumberOf(raw) \o <<"p", "x">>
            p == genState["padding"]
            m == genState["margin"]
            b == genState["border"]
        IN  /\ ~Contains(genCss, <<"p", "x", "p", "x">>)
            /\ (\A side \in {"l", "t", "r", "b"} : IsNumberOrPx(p[side]))
                   => \A i \in DOMAIN lines :
                         StartsWith(lines[i], <<" ", " ", "p", "a", "d", "d", "i", "n", "g", ":">>)
                             => lines[i] = <<" ", " ", "p", "a", "d", "d", "i", "n", "g", ":", " ">> \o OnePx(p["t"]) \o <<" ">> \o OnePx(p["r"])
                                               \o <<" ">> \o OnePx(p["b"]) \o <<" ">> \o OnePx(p["l"]) \o <<";">>
            /\ (IsNumberOrPx(m["x"]) /\ IsNumberOrPx(m["y"]))
                   => \A i \in DOMAIN lines :
                         StartsWith(lines[i], <<" ", " ", "m", "a", "r", "g", "i", "n", ":">>)
                             => lines[i] = <<" ", " ", "m", "a", "r", "g", "i", "n", ":", " ">> \o OnePx(m["y"]) \o <<" ">> \o OnePx(m["x"]) \o <<";">>
            /\ IsNumberOrPx(b["width"])
                   => \A i \in DOMAIN lines :
                         StartsWith(lines[i], <<" ", " ", "b", "o", "r", "d", "e", "r", ":">>)
                             => StartsWith(lines[i], <<" ", " ", "b", "o", "r", "d", "e", "r", ":", " ">> \o OnePx(b["width"]) \o <<" ">>)

\* a stored spacing value that is empty or denotes zero
ZeroOrEmpty(raw) == raw = EmptyStr \/ (IsNumberOrPx(raw) /\ ~IsNonZero(NumberOf(raw)))

\* C22: the rule block of useExportCSS has a padding declaration exactly
\* when some padding side is non-zero, and a margin declaration exactly when
\* margin.x or margin.y is non-zero: values that are all zero or empty give
\* no declaration
C22_ZeroSpacingNotExported ==
    genPc = "css" =>
        LET lines == CssTextLines
            p == genState["padding"]
            m == genState["margin"]
        IN  /\ Starting(lines, <<" ", " ", "p", "a", "d", "d", "i", "n", "g", ":">>) # << >>
                  <=> ~(\A side \in {"l", "t", "r", "b"} : ZeroOrEmpty(p[side]))
            /\ Starting(lines, <<" ", " ", "m", "a", "r", "g", "i", "n", ":">>) # << >>
                  <=> ~(ZeroOrEmpty(m["x"]) /\ ZeroOrEmpty(m["y"]))

---------------------------------------------------------------------------
(* The HTML export *)

\* C23: the HTML of useGeneratedCode contains ' href="<link>"' exactly when
\* state.link is not empty and state.tag is 'a' or 'button'; for another tag
\* with a link, and for any tag without a link, it has no href attribute
C23_HrefOnlyOnLinks ==
    genPc \in {"code", "css"} =>
        LET link == genState["link"]
            linked == link # EmptyStr /\ genState["tag"] \in {<<"a">>, <<"b", "u", "t", "t", "o", "n">>}
        IN  /\ Contains(genHtml, <<" ", "h", "r", "e", "f", "=", "\"">> \o link \o <<"\"">>) <=> linked
            /\ ~linked => ~Contains(genHtml, <<" ", "h", "r", "e", "f", "=">>)

\* a button with a link
C23_Witness ==
    /\ genPc = "code"
    /\ genState["tag"] = <<"b", "u", "t", "t", "o", "n">>
    /\ genState["link"] = <<"h", "t", "t", "p", "s", ":", "/", "/", "x">>
    /\ genHtml = <<"<", "b", "u", "t", "t", "o", "n", " ", "h", "r", "e", "f", "=", "\"", "h", "t", "t", "p", "s", ":", "/", "/", "x", "\"", ">">> \o <<"\n">> \o <<" ", " ">> \o <<"\n">> \o <<"<", "/", "b", "u", "t", "t", "o", "n", ">">>

---------------------------------------------------------------------------
(* The inline CSS text *)

\* the styles the claim asks for: each segment split at its first colon, the
\* trimmed text before it camel-cased as key, the trimmed text after it as
\* value; a segment without a colon, or with an empty side, adds nothing
RECURSIVE FirstColonStyles(_, _)
FirstColonStyles(styles, segments) ==
    IF segments = << >> THEN styles
    ELSE LET line == Head(segments)
             prop == Trim(PrefixNotIn(line, {":"}))
             rest == SubSeq(line, Len(PrefixNotIn(line, {":"})) + 2, Len(line))
             val == Trim(rest)
         IN  FirstColonStyles(
                 SetStyleIf(Truthy(prop) /\ Truthy(val), styles, CamelProp(prop), val),
                 Tail(segments))

\* C24: useGeneratedStyles splits each ';'-separated segment of inlineCSS at
\* its first ':' only; the value is the whole trimmed text after that colon,
\* further colons included, and a segment without a colon adds no entry
C24_SplitAtFirstColon ==
    genPc = "styles" =>
        genStyles = FirstColonStyles(
                        useGeneratedStyles([genState EXCEPT !["inlineCSS"] = EmptyStr]),
                        Split(genState["inlineCSS"], ";"))

---------------------------------------------------------------------------
(* The totality of the value normalizer *)

\* C25: normalizeNumericValue returns a string for every number, string,
\* null and undefined; for a string whose trimmed text is not empty and does
\* not begin with a digit, a point or a minus sign ('auto') it returns that
\* trimmed text, unchanged, and not ''
C25_TotalKeepsKeywords ==
    normPc # "start" =>
        /\ normOut \in Seq(STRING)
        /\ normIn.kind \in {"null", "undefined"} => normOut = EmptyStr
        /\ (normIn.kind = "string" /\ Trim(normIn.val) # EmptyStr
               /\ Head(Trim(normIn.val)) \notin NumericClass)
              => normOut = Trim(normIn.val) /\ normOut # EmptyStr

\* the keyword 'auto' came back as it was
C25_Witness ==
    /\ normPc = "once"
    /\ normIn = JsStr(<<"a", "u", "t", "o">>)
    /\ normOut = <<"a", "u", "t", "o">>

---------------------------------------------------------------------------
(* The saved code of CodePreviewProvider *)

\* C26: in the provider with auto-clear, a call of setInspectorState made
\* while code is saved clears it: after the call hasSavedCode is false and
\* savedHtml and savedCss are '', whatever calls of saveCode, clearSavedCode
\* and setInspectorState came before it, and also when the saveCode before it
\* has not been rendered yet
C26_SetInspectorStateClears ==
    (autoClear /\ codeOp.op = "setInspectorState" /\ codeOp.had)
        => /\ ~hasSavedCode
           /\ savedHtml = EmptyStr
           /\ savedCss = EmptyStr

---------------------------------------------------------------------------
(* The perspective of PreviewBox *)

\* C27: when transforms3D.perspective > 0 and generatedStyles is the result
\* of useGeneratedStyles for the same state, the previewStyles handed to the
\* preview element have no perspective property: perspective is set on the
\* wrapper only
C27_PerspectiveOnWrapperOnly ==
    (genPc = "preview" /\ genState["transforms3D"]["perspective"] > 0)
        => ~HasStyle(genPreview, <<"p", "e", "r", "s", "p", "e", "c", "t", "i", "v", "e">>)
---------------------------------------------------------------------------
(* The override record of the base breakpoint *)

\* the callbacks that take a breakpoint argument and edit a key
EditOps == {"updateState", "updateNestedState", "updateDeepNestedState"}

\* C28: the override record of the base breakpoint is empty in every
\* reachable state, so the effective state of base is the base state; a
\* keyed edit addressed to base leaves breakpointStates as it was and writes
\* at most its key of the base state, and clearBreakpointOverrides('base')
\* changes neither the base state nor the overrides.
C28_BaseOverrideEmpty ==
    /\ [](/\ breakpointStates["base"] = EmptyObj
          /\ GetEffectiveState(state, breakpointStates, "base") = state)
    /\ [][/\ (nOps' = nOps + 1 /\ lastOp'.op \in EditOps /\ lastOp'.bp = "base")
               => /\ breakpointStates' = breakpointStates
                  /\ SameExcept(state, state', lastOp'.path[1])
          /\ (Calls("clearBreakpointOverrides") /\ lastOp'.bp = "base")
               => /\ breakpointStates' = breakpointStates
                  /\ state' = state]_vars

\* an edit was addressed to base by its argument while another breakpoint is
\* the current one, and it changed the base padding
C28_Witness ==
    /\ lastOp.op = "updateNestedState"
    /\ lastOp.arg = "base"
    /\ currentBreakpoint = "lg"
    /\ callbackBreakpoint = "lg"
    /\ state["padding"]["l"] = <<"8">>
    /\ breakpointStates = EmptyBreakpointStates
---------------------------------------------------------------------------
(* The three values of the saved code *)

\* savedHtml, savedCss and hasSavedCode together
SavedCode == <<savedHtml, savedCss, hasSavedCode>>

\* C29: in every reachable state of CodePreviewProvider hasSavedCode = false
\* implies savedHtml = '' and savedCss = ''; the three values are written
\* together only: by saveCode, which stores the customHtml and customCss of
\* its closure and sets the flag, and by clearSavedCode and the auto-clear of
\* setInspectorState, which empty both texts and reset the flag.
C29_SavedCodeWrittenTogether ==
    /\ [](~hasSavedCode => (savedHtml = EmptyStr /\ savedCss = EmptyStr))
    /\ [][SavedCode' # SavedCode =>
            \/ /\ codeOp'.op = "saveCode"
               /\ SavedCode' = <<renderedCode.customHtml, renderedCode.customCss, TRUE>>
            \/ /\ codeOp'.op \in {"clearSavedCode", "setInspectorState"}
               /\ autoClear
               /\ SavedCode' = <<EmptyStr, EmptyStr, FALSE>>]_vars

\* non-empty code was saved and clearSavedCode has been called on it
C29_Witness ==
    /\ codeOp.op = "clearSavedCode"
    /\ codeOp.had
    /\ renderedCode.customHtml # EmptyStr
    /\ SavedCode = <<EmptyStr, EmptyStr, FALSE>>
---------------------------------------------------------------------------
(* The resets of the store *)

\* the call resets the groups of the base state to their defaults and leaves
\* the other groups and every override record as they were, so that the
\* effective state of a breakpoint still has each overridden value of groups
ResetsOnly(groups) ==
    /\ DOMAIN state' = DOMAIN state
    /\ \A key \in groups : state'[key] = DEFAULT_INSPECTOR_STATE[key]
    /\ \A key \in DOMAIN state \ groups : state'[key] = state[key]
    /\ breakpointStates' = breakpointStates
    /\ \A bp \in Breakpoints :
          LET effective == GetEffectiveState(state', breakpointStates', bp)
          IN  \A key \in groups \cap DOMAIN breakpointStates[bp] :
                 \A field \in DOMAIN breakpointStates[bp][key] :
                    effective[key][field] = breakpointStates[bp][key][field]

\* C30: resetTransforms writes only the transforms and transforms3D groups of
\* the base state back to the defaults, and resetEffects only the effects
\* group; both leave every other base group and all breakpoint overrides
\* unchanged, so the effective state of a breakpoint that overrides the group
\* still shows the overridden values; resetState returns the base state to
\* DEFAULT_INSPECTOR_STATE and every override record to empty.
C30_ResetFrame ==
    [][/\ Calls("resetTransforms") => ResetsOnly({"transforms", "transforms3D"})
       /\ Calls("resetEffects") => ResetsOnly({"effects"})
       /\ Calls("resetState")
            => /\ state' = DEFAULT_INSPECTOR_STATE
               /\ \A bp \in Breakpoints : breakpointStates'[bp] = EmptyObj]_vars

\* resetTransforms has been called while lg overrides the rotation: the base
\* rotation is the default, the effective rotation of lg is the override
C30_Witness ==
    /\ lastOp.op = "resetTransforms"
    /\ "transforms" \in DOMAIN breakpointStates["lg"]
    /\ breakpointStates["lg"]["transforms"]["rotate"] = 45
    /\ state["transforms"] = DEFAULT_INSPECTOR_STATE["transforms"]
    /\ GetEffectiveState(state, breakpointStates, "lg")["transforms"]["rotate"] = 45

=============================================================================
